---- MODULE Spec2Model ----
(***************************************************************************)
(* Write-admission and serialization subsystem of the PMTU Global Pokedex  *)
(* (src/app/main.py): the two bounded queues, their worker threads, the    *)
(* global WRITE_LOCK, the register / capture merge procedures, the capture *)
(* fast path and the uncapture handler, over the SQLite tables players and *)
(* captures.                                                               *)
(*                                                                         *)
(* Conventions.  An optional Python value (None or v) is the set {} or {v}.*)
(* A Future is held by at most one request thread, the one that created    *)
(* it: a reference to a Future is {t} for the Future thread t holds and {} *)
(* for a Future no request thread holds any more.                          *)
(* A Python str that the code inspects character by character is a         *)
(* sequence of one-character strings.  A SQLite statement is one atomic    *)
(* step on the committed tables; the statements of one write transaction   *)
(* become visible together at conn.commit(), so the statements between the *)
(* first write and the commit are one step.                                *)
(***************************************************************************)
EXTENDS Bags, FiniteSets, Integers, Sequences, TLC

VARIABLES
    cfg,              \* the environment-style configuration read at import time
    env,              \* the callers and the values they and the clock supply
    players,          \* table players: a set of rows (steam_id is PRIMARY KEY)
    captures,         \* table captures: a bag of rows (id is a surrogate key)
    WRITE_LOCK,       \* threading.Lock: the set of threads inside "with WRITE_LOCK"
    REGISTER_QUEUE,   \* Queue of (req, fut)
    CAPTURE_QUEUE,    \* Queue of (req, fut)
    unfinished_tasks, \* Queue.unfinished_tasks of each queue
    rpc,              \* request threads: position in the handler
    rreq,             \* request threads: the request being handled
    rfut,             \* request threads: the Future the handler created and holds
    resp,             \* the HTTP response sent by the step just taken, if any
    wpc,              \* worker threads: position in the worker loop
    wreq,             \* worker threads: the dequeued request
    wfut,             \* worker threads: the dequeued Future
    wloc,             \* worker threads: locals of _process_register / _process_capture
    hist              \* history of the run (observations only, never read by the code)

vars == <<cfg, env, players, captures, WRITE_LOCK, REGISTER_QUEUE, CAPTURE_QUEUE,
          unfinished_tasks, rpc, rreq, rfut, resp, wpc, wreq, wfut, wloc, hist>>

-----------------------------------------------------------------------------
(* Bounds of the model *)

\* worker threads that can be configured per queue
MaxWorkers == 2
\* largest configured queue capacity
MaxQueue == 2

-----------------------------------------------------------------------------
(* Input domains *)

\* steam_ids (RegisterReq asks for 3 to 64 characters)
PlayerIds == {"P01", "P02"}

\* ISO timestamps, opaque: the code stores them and never compares them
Times == {"t1", "t2"}

Pikachu == <<"P", "i", "k", "a">>
Megaman == <<"m", "e", "g", "a", "m", "a", "n">>
MegaCharizardX == <<"M", "e", "g", "a", " ", "X">>
GmaxY == <<"G", "M", "A", "X", " ", "y">>

\* species names that reach the store
TrackedSpecies == {Pikachu}
SpeciesNames == TrackedSpecies \cup {MegaCharizardX, GmaxY}

Ash == <<"A", "s", "h">>
\* " A<BEL>  <b " : leading blank, a control character, a run of blanks, "<"
Messy == <<" ", "A", "BEL", " ", " ", "<", "b", " ">>
Unknown == <<"U", "n", "k", "n", "o", "w", "n">>

RawNames == {{}, {Messy}}

\* one thread per HTTP request being handled
RequestThreads == {<<"request", 1>>, <<"request", 2>>}

-----------------------------------------------------------------------------
(* Pure functions *)

Max(a, b) == IF a >= b THEN a ELSE b

UpperCase == <<"A", "B", "C", "D", "E", "F", "G", "H", "I", "J", "K", "L", "M",
               "N", "O", "P", "Q", "R", "S", "T", "U", "V", "W", "X", "Y", "Z">>
LowerCase == <<"a", "b", "c", "d", "e", "f", "g", "h", "i", "j", "k", "l", "m",
               "n", "o", "p", "q", "r", "s", "t", "u", "v", "w", "x", "y", "z">>

\* str.lower() on one character
LowerChar(c) ==
    IF \E i \in 1..Len(UpperCase) : UpperCase[i] = c
    THEN LowerCase[CHOOSE i \in 1..Len(UpperCase) : UpperCase[i] = c]
    ELSE c

\* str.lower()
Lower(s) == [i \in 1..Len(s) |-> LowerChar(s[i])]

\* str.startswith(prefix)
StartsWith(s, prefix) ==
    /\ Len(s) >= Len(prefix)
    /\ SubSeq(s, 1, Len(prefix)) = prefix

\* the test of _process_capture and of capture for Mega and Gmax forms
IsMegaGmaxExact(pokemon_name) ==
    \/ StartsWith(pokemon_name, <<"m", "e", "g", "a", " ">>)
    \/ StartsWith(pokemon_name, <<"g", "m", "a", "x", " ">>)

IsMegaGmax(pokemon_name) ==
    LET name_lower == Lower(pokemon_name)
    IN  \/ StartsWith(name_lower, <<"m", "e", "g", "a", " ">>)
        \/ StartsWith(name_lower, <<"g", "m", "a", "x", " ">>)

MAX_NAME_LEN == 64

\* unicodedata.category(ch) in ("Cc", "Cf")
ControlChars == {"BEL", "TAB", "ZWSP"}
\* characters matched by \s once the control characters are gone
SpaceChars == {" ", "NBSP"}
\* characters SAFE_CHARS_RE keeps
SafeChars ==
    {UpperCase[i] : i \in 1..Len(UpperCase)} \cup
    {LowerCase[i] : i \in 1..Len(LowerCase)} \cup
    {"0", "1", "2", "3", "4", "5", "6", "7", "8", "9", "e'", " ", "-", "_",
     ".", "(", ")", "!", "@", "#", "$", "%", "&", "+", "=", ",", ":", ";"}

\* unicodedata.normalize("NFC", name): "e" followed by the combining acute
\* accent composes to one character
RECURSIVE NFC(_)
NFC(s) ==
    IF Len(s) = 0 THEN <<>>
    ELSE IF Len(s) >= 2 /\ s[1] = "e" /\ s[2] = "ACUTE"
         THEN <<"e'">> \o NFC(SubSeq(s, 3, Len(s)))
         ELSE <<s[1]>> \o NFC(Tail(s))

\* "".join(ch for ch in n if keep(ch))
RECURSIVE Filter(_, _)
Filter(s, keep) ==
    IF Len(s) = 0 THEN <<>>
    ELSE (IF s[1] \in keep THEN <<s[1]>> ELSE <<>>) \o Filter(Tail(s), keep)

\* re.sub(r"\s+", " ", n)
RECURSIVE CollapseSpaces(_)
CollapseSpaces(s) ==
    IF Len(s) = 0 THEN <<>>
    ELSE IF s[1] \in SpaceChars
         THEN IF Len(s) >= 2 /\ s[2] \in SpaceChars
              THEN CollapseSpaces(Tail(s))
              ELSE <<" ">> \o CollapseSpaces(Tail(s))
         ELSE <<s[1]>> \o CollapseSpaces(Tail(s))

\* str.lstrip()
RECURSIVE LStrip(_)
LStrip(s) ==
    IF Len(s) > 0 /\ s[1] \in SpaceChars THEN LStrip(Tail(s)) ELSE s

\* str.rstrip()
RECURSIVE RStrip(_)
RStrip(s) ==
    IF Len(s) > 0 /\ s[Len(s)] \in SpaceChars
    THEN RStrip(SubSeq(s, 1, Len(s) - 1))
    ELSE s

AllChars ==
    SafeChars \cup ControlChars \cup SpaceChars \cup {"ACUTE", "<", "/"}

make_safe_name(name) ==
    IF name = {} \/ name = {<<>>}
    THEN Unknown
    ELSE LET raw == CHOOSE n \in name : TRUE
             n1 == NFC(raw)
             n2 == Filter(n1, AllChars \ ControlChars)
             n3 == RStrip(LStrip(CollapseSpaces(n2)))
             n4 == Filter(n3, SafeChars)
             n5 == IF Len(n4) > MAX_NAME_LEN
                   THEN RStrip(SubSeq(n4, 1, MAX_NAME_LEN))
                   ELSE n4
         IN  IF n5 = <<>> THEN Unknown ELSE n5

-----------------------------------------------------------------------------
(* The store: SQL statements as functions of the committed tables *)

\* a SELECT that finds a row for every steam_id
SelectPlayerFound(pl, steam_id) == {[steam_id |-> steam_id]}

\* SELECT ... FROM players WHERE steam_id=?
SelectPlayer(pl, steam_id) == {r \in pl : r.steam_id = steam_id}

\* an update that writes the row anew, created_at included
UpdatePlayerReplace(pl, req, safe, now) ==
    {IF r.steam_id = req.steam_id
     THEN [steam_id |-> req.steam_id,
           steam_name |-> req.steam_name,
           steam_name_raw |-> req.steam_name,
           steam_name_safe |-> safe,
           created_at |-> now,
           updated_at |-> now,
           last_seen_at |-> now]
     ELSE r : r \in pl}

\* UPDATE players SET steam_name=?, steam_name_raw=?, steam_name_safe=?,
\*                    updated_at=?, last_seen_at=? WHERE steam_id=?
UpdatePlayer(pl, req, safe, now) ==
    {IF r.steam_id = req.steam_id
     THEN [r EXCEPT !.steam_name = req.steam_name,
                    !.steam_name_raw = req.steam_name,
                    !.steam_name_safe = safe,
                    !.updated_at = now,
                    !.last_seen_at = now]
     ELSE r : r \in pl}

\* an INSERT that stores the raw name as the safe one
InsertPlayerUnsanitized(pl, req, safe, now) ==
    pl \cup {[steam_id |-> req.steam_id,
              steam_name |-> req.steam_name,
              steam_name_raw |-> req.steam_name,
              steam_name_safe |-> IF req.steam_name = {} THEN safe
                                  ELSE CHOOSE n \in req.steam_name : TRUE,
              created_at |-> now,
              updated_at |-> now,
              last_seen_at |-> now]}

\* INSERT INTO players(...) VALUES(?,?,?,?,?,?,?)
InsertPlayer(pl, req, safe, now) ==
    pl \cup {[steam_id |-> req.steam_id,
              steam_name |-> req.steam_name,
              steam_name_raw |-> req.steam_name,
              steam_name_safe |-> safe,
              created_at |-> now,
              updated_at |-> now,
              last_seen_at |-> now]}

\* the rows of captures with the given steam_id and pokemon_name
PairRows(cap, steam_id, pokemon_name) ==
    {r \in BagToSet(cap) : r.steam_id = steam_id /\ r.pokemon_name = pokemon_name}

\* the rows of captures with the given pokemon_name
SpeciesRows(cap, pokemon_name) ==
    {r \in BagToSet(cap) : r.pokemon_name = pokemon_name}

\* number of table rows (copies counted) among the distinct rows S
RECURSIVE CountRows(_, _)
CountRows(cap, S) ==
    IF S = {} THEN 0
    ELSE LET r == CHOOSE x \in S : TRUE
         IN  CopiesIn(r, cap) + CountRows(cap, S \ {r})

\* a bag holding n copies of row r
Copies(r, n) == [x \in {r} |-> n]

\* the bag cap without the distinct rows S
Without(cap, S) == [x \in BagToSet(cap) \ S |-> cap[x]]

\* SELECT shiny FROM captures WHERE steam_id=? AND pokemon_name=?  + fetchone()
SelectShiny(cap, steam_id, pokemon_name) ==
    LET rows == PairRows(cap, steam_id, pokemon_name)
    IN  IF rows = {} THEN {} ELSE {(CHOOSE r \in rows : TRUE).shiny}

\* a snapshot that finds no row whatever the table holds
SnapshotEmpty(cap, pokemon_name) == [total_players |-> 0, shiny_rows |-> 0]

\* SELECT COUNT(DISTINCT steam_id) AS total_players,
\*        SUM(CASE WHEN shiny = 1 THEN 1 ELSE 0 END) AS shiny_rows
\* FROM captures WHERE pokemon_name = ?      (NULL "or 0" is 0)
SnapshotCounts(cap, pokemon_name) ==
    LET rows == SpeciesRows(cap, pokemon_name)
    IN  [total_players |-> Cardinality({r.steam_id : r \in rows}),
         shiny_rows |-> CountRows(cap, {r \in rows : r.shiny = 1})]

\* the INSERT as it would act without the unique index
InsertPlain(cap, row) ==
    [captures |-> cap (+) Copies(row, 1), rowcount |-> 1]

\* INSERT OR IGNORE INTO captures(steam_id, pokemon_name, shiny, captured_at):
\* the unique index idx_captures_unique_player_species makes the statement a
\* no-op when the pair has a row

InsertOrIgnore(cap, row) ==
    IF PairRows(cap, row.steam_id, row.pokemon_name) # {}
    THEN [captures |-> cap, rowcount |-> 0]
    ELSE [captures |-> cap (+) Copies(row, 1), rowcount |-> 1]

\* the rows S of cap, each with shiny set to 1
RECURSIVE WithShiny(_, _)
WithShiny(cap, S) ==
    IF S = {} THEN EmptyBag
    ELSE LET r == CHOOSE x \in S : TRUE
         IN  Copies([r EXCEPT !.shiny = 1], cap[r]) (+) WithShiny(cap, S \ {r})

\* an upgrade of the rows of the species of every player
UpgradeShinySpecies(cap, steam_id, pokemon_name) ==
    LET hit == {r \in SpeciesRows(cap, pokemon_name) : r.shiny = 0}
    IN  [captures |-> Without(cap, hit) (+) WithShiny(cap, hit),
         rowcount |-> CountRows(cap, hit)]

\* UPDATE captures SET shiny = 1
\* WHERE steam_id = ? AND pokemon_name = ? AND shiny = 0
UpgradeShiny(cap, steam_id, pokemon_name) ==
    LET hit == {r \in PairRows(cap, steam_id, pokemon_name) : r.shiny = 0}
    IN  [captures |-> Without(cap, hit) (+) WithShiny(cap, hit),
         rowcount |-> CountRows(cap, hit)]

\* a delete of the species for every player
DeleteSpecies(cap, steam_id, pokemon_name) ==
    LET hit == SpeciesRows(cap, pokemon_name)
    IN  [captures |-> Without(cap, hit), rowcount |-> CountRows(cap, hit)]

\* DELETE FROM captures WHERE steam_id = ? AND pokemon_name = ?
DeleteCapture(cap, steam_id, pokemon_name) ==
    LET hit == PairRows(cap, steam_id, pokemon_name)
    IN  [captures |-> Without(cap, hit), rowcount |-> CountRows(cap, hit)]

\* a failed transaction whose writes stay in the table
RollbackKeeps(committed, written) == written

\* the table after a transaction that failed before conn.commit(): its
\* writes were never committed, the table other connections read is the
\* committed one
Rollback(committed, written) == committed

-----------------------------------------------------------------------------
(* Configuration, threads, queues and futures *)

Config(cq, cw, rq, rw, cack, rack) ==
    [CAPTURE_QUEUE_MAXSIZE |-> cq, CAPTURE_WORKERS |-> cw,
     REGISTER_QUEUE_MAXSIZE |-> rq, REGISTER_WORKERS |-> rw,
     CAPTURE_IMMEDIATE_ACK |-> cack, REGISTER_IMMEDIATE_ACK |-> rack]

\* the surroundings of one run: the steam_ids each request thread sends (none:
\* the thread is not in use), the endpoints the callers use, the players the
\* database file holds when the service starts, whether a worker can take
\* longer than the result timeout, the raw names and captured_at values sent,
\* the readings of the clock, and whether a statement can fail with
\* sqlite3.OperationalError (db_ok = FALSE)
Callers(ids, ops, known, late) ==
    [ids |-> ids, ops |-> ops, known |-> known, late |-> late,
     names |-> {{}}, stamps |-> {{}}, times |-> {"t1"}, db_ok |-> {TRUE}]

\* both request threads serve the same player; each serves its own; one thread
SamePlayer == [t \in RequestThreads |-> {"P01"}]
OwnPlayer == [t \in RequestThreads |-> {IF t[2] = 1 THEN "P01" ELSE "P02"}]
OneThread == [t \in RequestThreads |-> IF t[2] = 1 THEN {"P01"} ELSE {}]

\* the runs explored
Scenarios ==
    {\* two callers of one registered player race on one pair, with Uncapture,
     \* over the largest capture worker pool
     [cfg |-> Config(1, MaxWorkers, 1, 1, FALSE, TRUE),
      env |-> Callers(SamePlayer, {"capture", "uncapture"}, {"P01"}, FALSE)],
     \* two registered players capture the same species over the largest pool
     [cfg |-> Config(1, MaxWorkers, 1, 1, FALSE, TRUE),
      env |-> Callers(OwnPlayer, {"capture", "uncapture"}, PlayerIds, FALSE)],
     \* the default configuration with the smallest queues and slow workers
     [cfg |-> Config(1, 1, 1, 1, FALSE, TRUE),
      env |-> Callers(SamePlayer, {"register", "capture"}, {}, TRUE)],
     \* one worker, the largest queues, the ack modes swapped
     [cfg |-> Config(MaxQueue, 1, MaxQueue, 1, TRUE, FALSE),
      env |-> Callers(OneThread, {"register", "capture"}, {"P01"}, FALSE)],
     \* one caller of a registered player who stops waiting for slow workers
     [cfg |-> Config(1, 1, 1, 1, FALSE, TRUE),
      env |-> Callers(OneThread, {"capture"}, {"P01"}, TRUE)],
     \* one caller registers a new player and captures, the default acks
     [cfg |-> Config(1, 1, 1, 1, FALSE, TRUE),
      env |-> Callers(OneThread, {"register", "capture"}, {}, FALSE)],
     \* one caller, both acks detached, with store failures
     [cfg |-> Config(1, 1, 1, 1, TRUE, TRUE),
      env |-> [Callers(OneThread, {"register", "capture"}, {}, FALSE)
                  EXCEPT !.db_ok = BOOLEAN]],
     \* two callers register one unknown player over the largest register
     \* worker pool and wait for the results
     [cfg |-> Config(1, 1, 1, MaxWorkers, FALSE, FALSE),
      env |-> Callers(SamePlayer, {"register"}, {}, FALSE)],
     \* one caller at a time with every name, timestamp and store failure
     [cfg |-> Config(1, 1, 1, MaxWorkers, FALSE, FALSE),
      env |-> [Callers(OneThread, {"register", "capture", "uncapture"}, {}, FALSE)
                  EXCEPT !.names = RawNames, !.stamps = {{}, {"t1"}},
                         !.times = Times, !.db_ok = BOOLEAN]]}

\* worker_count = max(1, REGISTER_WORKERS) threads named register-worker-<idx+1>
RegisterWorkers == {<<"register-worker", i>> : i \in 1..Max(1, cfg.REGISTER_WORKERS)}

\* worker_count = max(1, CAPTURE_WORKERS) threads named capture-worker-<idx+1>
CaptureWorkers == {<<"capture-worker", i>> : i \in 1..Max(1, cfg.CAPTURE_WORKERS)}

WorkerIds ==
    {<<"register-worker", i>> : i \in 1..MaxWorkers} \cup
    {<<"capture-worker", i>> : i \in 1..MaxWorkers}

\* Future(): not done
PendingFuture == [state |-> "pending"]

\* a test that lets the queue grow one past maxsize
QueueFullOver(q, maxsize) == maxsize > 0 /\ Len(q) > maxsize

\* Queue._qsize() >= maxsize, the test of put_nowait (maxsize <= 0: unbounded)
QueueFull(q, maxsize) == maxsize > 0 /\ Len(q) >= maxsize

\* a put that never raises Full
put_always(q, maxsize, item) == [full |-> FALSE, queue |-> Append(q, item)]

\* Queue.put_nowait(item): raises Full, or appends the item
put_nowait(q, maxsize, item) ==
    IF QueueFull(q, maxsize)
    THEN [full |-> TRUE, queue |-> q]
    ELSE [full |-> FALSE, queue |-> Append(q, item)]

\* a get that takes the item put last
QueueGetLast(q) == [item |-> q[Len(q)], rest |-> SubSeq(q, 1, Len(q) - 1)]

\* Queue.get(): the item at the head, and the rest
QueueGet(q) == [item |-> Head(q), rest |-> Tail(q)]

\* a lock that never makes a thread wait
CanAlwaysAcquire(t) == TRUE

\* "with WRITE_LOCK": the thread blocks until the lock is free
CanAcquire(t) == WRITE_LOCK = {}

\* an end of the with block that keeps the lock
ReleasedNever(t) == WRITE_LOCK

\* an acquire that leaves the lock free
HeldByNone(t) == WRITE_LOCK

\* the lock once t holds it, and once t has left the with block
Held(t) == WRITE_LOCK \cup {t}
Released(t) == WRITE_LOCK \ {t}

HTTPException(status_code, detail) ==
    [exc |-> "HTTPException", status_code |-> status_code, detail |-> detail]

\* sqlite3.OperationalError: the database cannot be opened or is locked
\* beyond busy_timeout
OperationalError == [exc |-> "OperationalError"]

\* sqlite3.IntegrityError: a PRIMARY KEY or UNIQUE constraint failed
IntegrityError == [exc |-> "IntegrityError"]

Response(status, body) == [status |-> status, body |-> body]

\* an answer that hides what the exception was
ErrorResponseOpaque(e) == Response(500, [detail |-> "Internal Server Error"])

\* what FastAPI answers for an exception leaving the handler
ErrorResponse(e) ==
    IF e.exc = "HTTPException"
    THEN Response(e.status_code, [detail |-> e.detail])
    ELSE Response(500, [detail |-> "Internal Server Error"])

\* what a function handed back: return (body, status), or raise exc
Returned(body, status) == [kind |-> "result", body |-> body, status |-> status]
RaisedAsStore(e) == [kind |-> "exception", exc |-> OperationalError]
Raised(e) == [kind |-> "exception", exc |-> e]

RegisterReqs(t) ==
    [kind : {"register"} \cap env.ops, steam_id : env.ids[t],
     steam_name : env.names]

CaptureReqs(t) ==
    [kind : {"capture"} \cap env.ops, steam_id : env.ids[t],
     pokemon_name : SpeciesNames,
     shiny : BOOLEAN, captured_at : env.stamps]

UncaptureReqs(t) ==
    [kind : {"uncapture"} \cap env.ops, steam_id : env.ids[t],
     pokemon_name : TrackedSpecies]

NoLocals == [at |-> "none"]

Queues == {"register", "capture"}

Init ==
    /\ \E sc \in Scenarios : cfg = sc.cfg /\ env = sc.env
    /\ players = UNION {InsertPlayer({}, [steam_id |-> p, steam_name |-> {}],
                                      Unknown, "t1") : p \in env.known}
    /\ captures = EmptyBag
    /\ WRITE_LOCK = {}
    /\ REGISTER_QUEUE = <<>>
    /\ CAPTURE_QUEUE = <<>>
    /\ unfinished_tasks = [q \in Queues |-> 0]
    /\ rpc = [t \in RequestThreads |-> "idle"]
    /\ rreq = [t \in RequestThreads |-> {}]
    /\ rfut = [t \in RequestThreads |-> {}]
    /\ resp = {}
    /\ wpc = [w \in WorkerIds |-> "get"]
    /\ wreq = [w \in WorkerIds |-> {}]
    /\ wfut = [w \in WorkerIds |-> {}]
    /\ wloc = [w \in WorkerIds |-> NoLocals]
    /\ hist = [first_overall |-> [s \in TrackedSpecies |-> FALSE],
               first_shiny |-> [s \in TrackedSpecies |-> FALSE],
               shiny |-> {},
               created |-> [p \in PlayerIds |-> 0],
               order |-> [q \in Queues |-> <<>>]]

-----------------------------------------------------------------------------
(* Request handlers: register, and the wait for a worker's result *)

\* the handler of thread t returns: the response is sent and the thread is
\* free for the next request
Answer(t, r) ==
    /\ resp' = {r}
    /\ rpc' = [rpc EXCEPT ![t] = "idle"]
    /\ rreq' = [rreq EXCEPT ![t] = {}]
    /\ rfut' = [rfut EXCEPT ![t] = {}]

\* a handler that waits for the worker whatever the ack mode
ImmediateAckNever(flag) == FALSE

\* "if REGISTER_IMMEDIATE_ACK:" / "if CAPTURE_IMMEDIATE_ACK:": the handler
\* returns 202 right after the put and drops its reference to the Future
ImmediateAck(flag) == flag

\* register(req): create the Future, put_nowait, and answer 429 on Full or 202
\* in immediate-ack mode; otherwise go on to wait for the result
register(t, req) ==
    /\ rpc[t] = "idle"
    /\ LET fut == IF ImmediateAck(cfg.REGISTER_IMMEDIATE_ACK) THEN {} ELSE {t}
           put == put_nowait(REGISTER_QUEUE, cfg.REGISTER_QUEUE_MAXSIZE,
                             [req |-> req, fut |-> fut])
       IN  IF put.full
           THEN /\ Answer(t, ErrorResponse(HTTPException(429,
                            "Register queue is full; try again shortly.")))
                /\ UNCHANGED <<REGISTER_QUEUE, unfinished_tasks, hist>>
           ELSE /\ REGISTER_QUEUE' = put.queue
                /\ unfinished_tasks' = [unfinished_tasks EXCEPT !["register"] = @ + 1]
                /\ hist' = [hist EXCEPT !.order["register"] =
                                Append(@, [req |-> req, fut |-> fut])]
                /\ IF ImmediateAck(cfg.REGISTER_IMMEDIATE_ACK)
                   THEN Answer(t, Response(202, [ok |-> TRUE, queued |-> TRUE]))
                   ELSE /\ resp' = {}
                        /\ rpc' = [rpc EXCEPT ![t] = "wait"]
                        /\ rreq' = [rreq EXCEPT ![t] = {req}]
                        /\ rfut' = [rfut EXCEPT ![t] = {PendingFuture}]
    /\ UNCHANGED <<cfg, env, players, captures, WRITE_LOCK, CAPTURE_QUEUE,
                   wpc, wreq, wfut, wloc>>

\* fut.result(timeout=...) returns or re-raises what the worker delivered
await_result(t) ==
    /\ rpc[t] = "wait"
    /\ \E f \in rfut[t] :
        /\ f.state \in {"result", "exception"}
        /\ Answer(t, IF f.state = "result"
                     THEN Response(f.status, f.body)
                     ELSE ErrorResponse(f.exc))
    /\ UNCHANGED <<cfg, env, players, captures, WRITE_LOCK, REGISTER_QUEUE,
                   CAPTURE_QUEUE, unfinished_tasks, wpc, wreq, wfut, wloc, hist>>

\* the references to the Future of thread t, once t holds it no more
Orphan(ref, t) == IF ref = {t} THEN {} ELSE ref

\* a timeout that takes the intents of thread t out of the queue
OrphanQueueDrop(q, t) == SelectSeq(q, LAMBDA item : item.fut # {t})

OrphanQueue(q, t) ==
    [i \in 1..Len(q) |-> [req |-> q[i].req, fut |-> Orphan(q[i].fut, t)]]

\* fut.result(timeout=...) raises TimeoutError: 503; the intent stays where it
\* is and its Future stays pending, held by no request thread
await_timeout(t) ==
    /\ env.late
    /\ rpc[t] = "wait"
    /\ rfut[t] = {PendingFuture}
    /\ Answer(t, ErrorResponse(HTTPException(503,
                    IF \E r \in rreq[t] : r.kind = "register"
                    THEN "Registration is queued but still processing; please retry."
                    ELSE "Capture is queued but still processing; please retry.")))
    /\ REGISTER_QUEUE' = OrphanQueue(REGISTER_QUEUE, t)
    /\ CAPTURE_QUEUE' = OrphanQueue(CAPTURE_QUEUE, t)
    /\ wfut' = [w \in WorkerIds |-> Orphan(wfut[w], t)]
    /\ hist' = [hist EXCEPT !.order = [q \in Queues |-> OrphanQueue(@[q], t)]]
    /\ UNCHANGED <<cfg, env, players, captures, WRITE_LOCK, unfinished_tasks,
                   wpc, wreq, wloc>>

-----------------------------------------------------------------------------
(* Register worker *)

\* req, fut = REGISTER_QUEUE.get()
_register_worker_get(w) ==
    /\ w \in RegisterWorkers
    /\ wpc[w] = "get"
    /\ REGISTER_QUEUE # <<>>
    /\ LET got == QueueGet(REGISTER_QUEUE)
       IN  /\ REGISTER_QUEUE' = got.rest
           /\ wreq' = [wreq EXCEPT ![w] = {got.item.req}]
           /\ wfut' = [wfut EXCEPT ![w] = got.item.fut]
    /\ wpc' = [wpc EXCEPT ![w] = "process"]
    /\ resp' = {}
    /\ UNCHANGED <<cfg, env, players, captures, WRITE_LOCK, CAPTURE_QUEUE,
                   unfinished_tasks, rpc, rreq, rfut, wloc, hist>>

\* the sequence s without its first element equal to v
RECURSIVE RemoveFirst(_, _)
RemoveFirst(s, v) ==
    IF s = <<>> THEN <<>>
    ELSE IF Head(s) = v THEN Tail(s)
    ELSE <<Head(s)>> \o RemoveFirst(Tail(s), v)

\* the intent that worker w holds
Intent(w) == [req |-> CHOOSE r \in wreq[w] : TRUE, fut |-> wfut[w]]

\* the intent of worker w leaves the order of the intents not yet merged
Merging(q, w) == [hist EXCEPT !.order[q] = RemoveFirst(@, Intent(w))]

\* body and status of _process_register
RegisterResult(req, safe, exists) ==
    Returned([ok |-> TRUE,
              steam_id |-> req.steam_id,
              steam_name |-> req.steam_name,
              steam_name_safe |-> safe,
              created |-> ~exists,
              updated |-> exists],
             IF ~exists THEN 201 ELSE 200)

\* _process_register up to the SELECT: now, safe, "with WRITE_LOCK", db(),
\* SELECT steam_id FROM players WHERE steam_id=?
\* A failing statement leaves the with block at once and releases the lock.
_process_register_enter(w) ==
    /\ w \in RegisterWorkers
    /\ wpc[w] = "process"
    /\ CanAcquire(w)
    /\ \E req \in wreq[w], now \in env.times, db_ok \in env.db_ok :
        IF db_ok
        THEN /\ WRITE_LOCK' = Held(w)
             /\ wloc' = [wloc EXCEPT ![w] =
                    [at |-> "write", now |-> now,
                     safe |-> make_safe_name(req.steam_name),
                     exists |-> SelectPlayer(players, req.steam_id) # {}]]
             /\ wpc' = [wpc EXCEPT ![w] = "write"]
        ELSE /\ UNCHANGED WRITE_LOCK
             /\ wloc' = [wloc EXCEPT ![w] =
                    [at |-> "return", outcome |-> Raised(OperationalError)]]
             /\ wpc' = [wpc EXCEPT ![w] = "deliver"]
    /\ hist' = Merging("register", w)
    /\ resp' = {}
    /\ UNCHANGED <<cfg, env, players, captures, REGISTER_QUEUE, CAPTURE_QUEUE,
                   unfinished_tasks, rpc, rreq, rfut, wreq, wfut>>

\* the write of _process_register: UPDATE or INSERT by the value of exists
\* (an INSERT of a steam_id that has a row violates the PRIMARY KEY)
RegisterWrite(pl, req, safe, now, exists) ==
    IF exists
    THEN [ok |-> TRUE, players |-> UpdatePlayer(pl, req, safe, now)]
    ELSE IF SelectPlayer(pl, req.steam_id) # {}
         THEN [ok |-> FALSE, players |-> pl]
         ELSE [ok |-> TRUE, players |-> InsertPlayer(pl, req, safe, now)]

\* the history once _process_register has returned this result: how many
\* times created = true has been returned for the steam_id
Registered(req, result) ==
    [hist EXCEPT !.created[req.steam_id] =
        IF result.body.created THEN @ + 1 ELSE @]

\* _process_register from the UPDATE / INSERT to the return: the write,
\* conn.commit(), the end of the with block, status and body
_process_register_write(w) ==
    /\ w \in RegisterWorkers
    /\ wpc[w] = "write"
    /\ \E req \in wreq[w], db_ok \in env.db_ok :
        LET loc == wloc[w]
            wr == RegisterWrite(players, req, loc.safe, loc.now, loc.exists)
        IN  IF db_ok /\ wr.ok
            THEN /\ players' = wr.players
                 /\ wloc' = [wloc EXCEPT ![w] =
                        [at |-> "return",
                         outcome |-> RegisterResult(req, loc.safe, loc.exists)]]
                 /\ hist' = Registered(req, RegisterResult(req, loc.safe, loc.exists))
            ELSE /\ players' = Rollback(players, wr.players)
                 /\ UNCHANGED hist
                 /\ wloc' = [wloc EXCEPT ![w] =
                        [at |-> "return",
                         outcome |-> Raised(IF db_ok THEN IntegrityError
                                            ELSE OperationalError)]]
    /\ WRITE_LOCK' = Released(w)
    /\ wpc' = [wpc EXCEPT ![w] = "deliver"]
    /\ resp' = {}
    /\ UNCHANGED <<cfg, env, captures, REGISTER_QUEUE, CAPTURE_QUEUE,
                   unfinished_tasks, rpc, rreq, rfut, wreq, wfut>>

\* a worker loop that an exception of the merge leaves
AfterTurnUncaught(outcome) ==
    IF outcome.kind = "exception" THEN "dead" ELSE "get"

\* where the worker thread is after one turn of "while True": "except
\* Exception" catches whatever the merge raised, so the loop goes on to the
\* next get()
AfterTurn(outcome) == "get"

\* fut.set_result((body, status)) or fut.set_exception(exc): the request
\* thread that holds the Future of worker w sees it done
Delivered(w) ==
    LET outcome == wloc[w].outcome
    IN  [t \in RequestThreads |->
            IF wfut[w] = {t}
            THEN {IF outcome.kind = "result"
                  THEN [state |-> "result", body |-> outcome.body,
                        status |-> outcome.status]
                  ELSE [state |-> "exception", exc |-> outcome.exc]}
            ELSE rfut[t]]

\* the rest of one turn of _register_worker: set_result / set_exception, then
\* REGISTER_QUEUE.task_done()
_register_worker_deliver(w) ==
    /\ w \in RegisterWorkers
    /\ wpc[w] = "deliver"
    /\ rfut' = Delivered(w)
    /\ unfinished_tasks' = [unfinished_tasks EXCEPT !["register"] = @ - 1]
    /\ wpc' = [wpc EXCEPT ![w] = AfterTurn(wloc[w].outcome)]
    /\ wreq' = [wreq EXCEPT ![w] = {}]
    /\ wfut' = [wfut EXCEPT ![w] = {}]
    /\ wloc' = [wloc EXCEPT ![w] = NoLocals]
    /\ resp' = {}
    /\ UNCHANGED <<cfg, env, players, captures, WRITE_LOCK, REGISTER_QUEUE,
                   CAPTURE_QUEUE, rpc, rreq, hist>>

-----------------------------------------------------------------------------
(* Request handlers: capture *)

IgnoredBody == [ok |-> TRUE, ignored |-> TRUE, reason |-> "mega-gmax-not-tracked"]

\* a no-op body that reports an insert
NoOpBodyInserted ==
    [ok |-> TRUE, inserted |-> TRUE, shiny_upgraded |-> FALSE,
     first_overall |-> FALSE, first_shiny |-> FALSE]

\* the body both the fast path and the short-circuit of the merge return
NoOpBody ==
    [ok |-> TRUE, inserted |-> FALSE, shiny_upgraded |-> FALSE,
     first_overall |-> FALSE, first_shiny |-> FALSE]

\* a fast path taken on every row, a shiny intent on a plain row included
FastPathAnyRow(row, req) == row # {}

\* a fast path that is never taken
FastPathNever(row, req) == FALSE

\* a fast path taken whatever the SELECT found
FastPathAlways(row, req) == TRUE

\* fast path of capture: "if row:" and "if already_shiny or not req.shiny:"
FastPathHit(row, req) == row # {} /\ (row = {1} \/ ~req.shiny)

\* a pre-check whose failing read fails the request
PrecheckRaises(db_ok, row, req) ==
    IF ~db_ok THEN "raise"
    ELSE IF FastPathHit(row, req) THEN "noop" ELSE "enqueue"

\* the try block of capture: the SELECT and the fast-path test, with
\* "except sqlite3.OperationalError: pass" falling through to the queue
Precheck(db_ok, row, req) ==
    IF ~db_ok THEN "enqueue"
    ELSE IF FastPathHit(row, req) THEN "noop" ELSE "enqueue"

\* capture(req) up to the enqueue: the Mega / Gmax filter, then the
\* unsynchronized SELECT of the fast path (sqlite3.OperationalError falls
\* through to the queue)
capture(t, req) ==
    /\ rpc[t] = "idle"
    /\ IF IsMegaGmax(req.pokemon_name)
       THEN Answer(t, Response(200, IgnoredBody))
       ELSE \E db_ok \in env.db_ok :
            LET row == SelectShiny(captures, req.steam_id, req.pokemon_name)
                way == Precheck(db_ok, row, req)
            IN  IF way = "noop"
                THEN Answer(t, Response(200, NoOpBody))
                ELSE IF way = "raise"
                THEN Answer(t, ErrorResponse(OperationalError))
                ELSE /\ resp' = {}
                     /\ rpc' = [rpc EXCEPT ![t] = "put"]
                     /\ rreq' = [rreq EXCEPT ![t] = {req}]
                     /\ UNCHANGED rfut
    /\ UNCHANGED <<cfg, env, players, captures, WRITE_LOCK, REGISTER_QUEUE,
                   CAPTURE_QUEUE, unfinished_tasks, wpc, wreq, wfut, wloc, hist>>

\* capture(req) from the enqueue: create the Future, put_nowait, and answer
\* 429 on Full or 202 in immediate-ack mode; otherwise go on to wait
capture_put(t) ==
    /\ rpc[t] = "put"
    /\ \E req \in rreq[t] :
       LET fut == IF ImmediateAck(cfg.CAPTURE_IMMEDIATE_ACK) THEN {} ELSE {t}
           put == put_nowait(CAPTURE_QUEUE, cfg.CAPTURE_QUEUE_MAXSIZE,
                             [req |-> req, fut |-> fut])
       IN  IF put.full
           THEN /\ Answer(t, ErrorResponse(HTTPException(429,
                            "Capture queue is full; try again shortly.")))
                /\ UNCHANGED <<CAPTURE_QUEUE, unfinished_tasks, hist>>
           ELSE /\ CAPTURE_QUEUE' = put.queue
                /\ unfinished_tasks' = [unfinished_tasks EXCEPT !["capture"] = @ + 1]
                /\ hist' = [hist EXCEPT !.order["capture"] =
                                Append(@, [req |-> req, fut |-> fut])]
                /\ IF ImmediateAck(cfg.CAPTURE_IMMEDIATE_ACK)
                   THEN Answer(t, Response(202, [ok |-> TRUE, queued |-> TRUE]))
                   ELSE /\ resp' = {}
                        /\ rpc' = [rpc EXCEPT ![t] = "wait"]
                        /\ rfut' = [rfut EXCEPT ![t] = {PendingFuture}]
                        /\ UNCHANGED rreq
    /\ UNCHANGED <<cfg, env, players, captures, WRITE_LOCK, REGISTER_QUEUE,
                   wpc, wreq, wfut, wloc>>

-----------------------------------------------------------------------------
(* Capture worker *)

\* a capture worker that waits for REGISTER_QUEUE.join() before each get()
_capture_worker_get_after_join(w) ==
    /\ w \in CaptureWorkers
    /\ wpc[w] = "get"
    /\ CAPTURE_QUEUE # <<>>
    /\ unfinished_tasks["register"] = 0
    /\ LET got == QueueGet(CAPTURE_QUEUE)
       IN  /\ CAPTURE_QUEUE' = got.rest
           /\ wreq' = [wreq EXCEPT ![w] = {got.item.req}]
           /\ wfut' = [wfut EXCEPT ![w] = got.item.fut]
    /\ wpc' = [wpc EXCEPT ![w] = "process"]
    /\ resp' = {}
    /\ UNCHANGED <<cfg, env, players, captures, WRITE_LOCK, REGISTER_QUEUE,
                   unfinished_tasks, rpc, rreq, rfut, wloc, hist>>

\* req, fut = CAPTURE_QUEUE.get()
_capture_worker_get(w) ==
    /\ w \in CaptureWorkers
    /\ wpc[w] = "get"
    /\ CAPTURE_QUEUE # <<>>
    /\ LET got == QueueGet(CAPTURE_QUEUE)
       IN  /\ CAPTURE_QUEUE' = got.rest
           /\ wreq' = [wreq EXCEPT ![w] = {got.item.req}]
           /\ wfut' = [wfut EXCEPT ![w] = got.item.fut]
    /\ wpc' = [wpc EXCEPT ![w] = "process"]
    /\ resp' = {}
    /\ UNCHANGED <<cfg, env, players, captures, WRITE_LOCK, REGISTER_QUEUE,
                   unfinished_tasks, rpc, rreq, rfut, wloc, hist>>

\* a short-circuit on every existing row
ShortCircuitAnyRow(existing, req) == existing # {}

\* "if existing and (existing["shiny"] == 1 or not req.shiny)"
ShortCircuit(existing, req) == existing # {} /\ (existing = {1} \/ ~req.shiny)

\* the locals of _process_capture when it returns or raises before any write
Early(outcome) == [at |-> "return", outcome |-> outcome]

\* _process_capture up to the snapshot: the Mega / Gmax filter, the default of
\* captured_at, "with WRITE_LOCK", db(), the player check, the short-circuit
\* and the snapshot of the counts.  A raise or a return inside the with block
\* releases the lock at once.
_process_capture_enter(w) ==
    /\ w \in CaptureWorkers
    /\ wpc[w] = "process"
    /\ \E req \in wreq[w] :
        IF IsMegaGmax(req.pokemon_name)
        THEN /\ wloc' = [wloc EXCEPT ![w] = Early(Returned(IgnoredBody, 200))]
             /\ wpc' = [wpc EXCEPT ![w] = "deliver"]
             /\ UNCHANGED WRITE_LOCK
        ELSE /\ CanAcquire(w)
             /\ \E now \in env.times, db_ok \in env.db_ok :
                LET captured_at == IF req.captured_at = {} THEN now
                                   ELSE CHOOSE c \in req.captured_at : TRUE
                    existing == SelectShiny(captures, req.steam_id, req.pokemon_name)
                    pre_counts == SnapshotCounts(captures, req.pokemon_name)
                    early ==
                        IF ~db_ok THEN {Raised(OperationalError)}
                        ELSE IF SelectPlayer(players, req.steam_id) = {}
                        THEN {Raised(HTTPException(400, "Player not registered"))}
                        ELSE IF ShortCircuit(existing, req)
                        THEN {Returned(NoOpBody, 200)}
                        ELSE {}
                IN  IF early # {}
                    THEN /\ wloc' = [wloc EXCEPT ![w] =
                                Early(CHOOSE o \in early : TRUE)]
                         /\ wpc' = [wpc EXCEPT ![w] = "deliver"]
                         /\ UNCHANGED WRITE_LOCK
                    ELSE /\ wloc' = [wloc EXCEPT ![w] =
                                [at |-> "write", captured_at |-> captured_at,
                                 existing |-> existing,
                                 pre_total_players |-> pre_counts.total_players,
                                 pre_shiny |-> pre_counts.shiny_rows]]
                         /\ wpc' = [wpc EXCEPT ![w] = "write"]
                         /\ WRITE_LOCK' = Held(w)
    /\ hist' = Merging("capture", w)
    /\ resp' = {}
    /\ UNCHANGED <<cfg, env, players, captures, REGISTER_QUEUE, CAPTURE_QUEUE,
                   unfinished_tasks, rpc, rreq, rfut, wreq, wfut>>

\* writes that insert the row as not shiny and leave shiny to the UPDATE
CaptureWritePlainRow(cap, req, captured_at) ==
    LET ins == InsertOrIgnore(cap, [steam_id |-> req.steam_id,
                                    pokemon_name |-> req.pokemon_name,
                                    shiny |-> 0,
                                    captured_at |-> captured_at])
        upd == IF req.shiny
               THEN UpgradeShiny(ins.captures, req.steam_id, req.pokemon_name)
               ELSE [captures |-> ins.captures, rowcount |-> 0]
    IN  [captures |-> upd.captures,
         inserted |-> ins.rowcount > 0,
         shiny_upgraded |-> upd.rowcount > 0]

\* the writes of _process_capture: INSERT OR IGNORE, then for a shiny intent
\* the UPDATE that upgrades a non-shiny row
CaptureWrite(cap, req, captured_at) ==
    LET ins == InsertOrIgnore(cap, [steam_id |-> req.steam_id,
                                    pokemon_name |-> req.pokemon_name,
                                    shiny |-> IF req.shiny THEN 1 ELSE 0,
                                    captured_at |-> captured_at])
        upd == IF req.shiny
               THEN UpgradeShiny(ins.captures, req.steam_id, req.pokemon_name)
               ELSE [captures |-> ins.captures, rowcount |-> 0]
    IN  [captures |-> upd.captures,
         inserted |-> ins.rowcount > 0,
         shiny_upgraded |-> upd.rowcount > 0]

\* the result with first_overall set by every insert
CaptureResultAnyInsert(req, inserted, shiny_upgraded, pre_total_players, pre_shiny) ==
    [kind |-> "result",
     body |-> [ok |-> TRUE, inserted |-> inserted,
               shiny_upgraded |-> shiny_upgraded,
               first_overall |-> inserted,
               first_shiny |-> req.shiny /\ pre_shiny = 0
                               /\ (inserted \/ shiny_upgraded)],
     status |-> IF inserted \/ shiny_upgraded THEN 201 ELSE 200]

\* the result with first_shiny set by every shiny insert or upgrade
CaptureResultAnyShiny(req, inserted, shiny_upgraded, pre_total_players, pre_shiny) ==
    [kind |-> "result",
     body |-> [ok |-> TRUE, inserted |-> inserted,
               shiny_upgraded |-> shiny_upgraded,
               first_overall |-> inserted /\ pre_total_players = 0,
               first_shiny |-> req.shiny /\ (inserted \/ shiny_upgraded)],
     status |-> IF inserted \/ shiny_upgraded THEN 201 ELSE 200]

\* the result with first_shiny set for intents that are not shiny too
CaptureResultShinyUnasked(req, inserted, shiny_upgraded, pre_total_players, pre_shiny) ==
    [kind |-> "result",
     body |-> [ok |-> TRUE, inserted |-> inserted,
               shiny_upgraded |-> shiny_upgraded,
               first_overall |-> inserted /\ pre_total_players = 0,
               first_shiny |-> pre_shiny = 0 /\ (inserted \/ shiny_upgraded)],
     status |-> IF inserted \/ shiny_upgraded THEN 201 ELSE 200]

\* status and body of _process_capture after the with block
CaptureResult(req, inserted, shiny_upgraded, pre_total_players, pre_shiny) ==
    Returned([ok |-> TRUE,
              inserted |-> inserted,
              shiny_upgraded |-> shiny_upgraded,
              first_overall |-> inserted /\ pre_total_players = 0,
              first_shiny |-> req.shiny /\ pre_shiny = 0
                              /\ (inserted \/ shiny_upgraded)],
             IF inserted \/ shiny_upgraded THEN 201 ELSE 200)

\* the history once _process_capture has returned this result: which
\* milestone flags have ever been returned true for the species, and for which
\* pairs a shiny intent has succeeded
Returning(req, outcome) ==
    [hist EXCEPT
        !.first_overall[req.pokemon_name] = @ \/ outcome.body.first_overall,
        !.first_shiny[req.pokemon_name] = @ \/ outcome.body.first_shiny,
        !.shiny = IF req.shiny /\ outcome.status = 201
                  THEN @ \cup {<<req.steam_id, req.pokemon_name>>}
                  ELSE @]

\* the shiny rows of a species
ShinyRows(cap, pokemon_name) == {r \in SpeciesRows(cap, pokemon_name) : r.shiny = 1}

\* _process_capture from the INSERT to the return: the writes, conn.commit(),
\* the end of the with block, status and body
_process_capture_write(w) ==
    /\ w \in CaptureWorkers
    /\ wpc[w] = "write"
    /\ \E req \in wreq[w], db_ok \in env.db_ok :
        LET loc == wloc[w]
            wr == CaptureWrite(captures, req, loc.captured_at)
            result == CaptureResult(req, wr.inserted, wr.shiny_upgraded,
                                    loc.pre_total_players, loc.pre_shiny)
        IN  IF db_ok
            THEN /\ captures' = wr.captures
                 /\ hist' = Returning(req, result)
                 /\ wloc' = [wloc EXCEPT ![w] = Early(result)]
            ELSE /\ captures' = Rollback(captures, wr.captures)
                 /\ UNCHANGED hist
                 /\ wloc' = [wloc EXCEPT ![w] =
                        Early(Raised(OperationalError))]
    /\ WRITE_LOCK' = Released(w)
    /\ wpc' = [wpc EXCEPT ![w] = "deliver"]
    /\ resp' = {}
    /\ UNCHANGED <<cfg, env, players, REGISTER_QUEUE, CAPTURE_QUEUE,
                   unfinished_tasks, rpc, rreq, rfut, wreq, wfut>>

\* the rest of one turn of _capture_worker: set_result / set_exception, then
\* CAPTURE_QUEUE.task_done()
_capture_worker_deliver(w) ==
    /\ w \in CaptureWorkers
    /\ wpc[w] = "deliver"
    /\ rfut' = Delivered(w)
    /\ unfinished_tasks' = [unfinished_tasks EXCEPT !["capture"] = @ - 1]
    /\ wpc' = [wpc EXCEPT ![w] = AfterTurn(wloc[w].outcome)]
    /\ wreq' = [wreq EXCEPT ![w] = {}]
    /\ wfut' = [wfut EXCEPT ![w] = {}]
    /\ wloc' = [wloc EXCEPT ![w] = NoLocals]
    /\ resp' = {}
    /\ UNCHANGED <<cfg, env, players, captures, WRITE_LOCK, REGISTER_QUEUE,
                   CAPTURE_QUEUE, rpc, rreq, hist>>

-----------------------------------------------------------------------------
(* Request handler: uncapture *)

\* uncapture(req) up to the DELETE: "with WRITE_LOCK", db(), the player check
uncapture(t, req) ==
    /\ rpc[t] = "idle"
    /\ CanAcquire(t)
    /\ \E db_ok \in env.db_ok :
        IF ~db_ok
        THEN /\ Answer(t, ErrorResponse(OperationalError))
             /\ UNCHANGED WRITE_LOCK
        ELSE IF SelectPlayer(players, req.steam_id) = {}
        THEN /\ Answer(t, ErrorResponse(HTTPException(400, "Player not registered")))
             /\ UNCHANGED WRITE_LOCK
        ELSE /\ resp' = {}
             /\ rpc' = [rpc EXCEPT ![t] = "write"]
             /\ rreq' = [rreq EXCEPT ![t] = {req}]
             /\ UNCHANGED rfut
             /\ WRITE_LOCK' = Held(t)
    /\ UNCHANGED <<cfg, env, players, captures, REGISTER_QUEUE, CAPTURE_QUEUE,
                   unfinished_tasks, wpc, wreq, wfut, wloc, hist>>

\* uncapture(req) from the DELETE: the write, conn.commit(), the end of the
\* with block, the answer
uncapture_write(t) ==
    /\ rpc[t] = "write"
    /\ \E req \in rreq[t], db_ok \in env.db_ok :
        LET del == DeleteCapture(captures, req.steam_id, req.pokemon_name)
        IN  IF db_ok
            THEN /\ captures' = del.captures
                 /\ Answer(t, Response(200, [ok |-> TRUE, deleted |-> del.rowcount]))
            ELSE /\ captures' = Rollback(captures, del.captures)
                 /\ Answer(t, ErrorResponse(OperationalError))
    /\ WRITE_LOCK' = Released(t)
    /\ UNCHANGED <<cfg, env, players, REGISTER_QUEUE, CAPTURE_QUEUE,
                   unfinished_tasks, wpc, wreq, wfut, wloc, hist>>

-----------------------------------------------------------------------------
(* Specifications *)

RequestStep ==
    \E t \in RequestThreads :
        \/ \E req \in RegisterReqs(t) : register(t, req)
        \/ \E req \in CaptureReqs(t) : capture(t, req)
        \/ capture_put(t)
        \/ await_result(t)
        \/ await_timeout(t)

UncaptureStep ==
    \E t \in RequestThreads :
        \/ \E req \in UncaptureReqs(t) : uncapture(t, req)
        \/ uncapture_write(t)

WorkerStep ==
    \E w \in WorkerIds :
        \/ _register_worker_get(w)
        \/ _process_register_enter(w)
        \/ _process_register_write(w)
        \/ _register_worker_deliver(w)
        \/ _capture_worker_get(w)
        \/ _process_capture_enter(w)
        \/ _process_capture_write(w)
        \/ _capture_worker_deliver(w)

Next == RequestStep \/ UncaptureStep \/ WorkerStep

Spec == Init /\ [][Next]_vars

\* the system when no caller uses the uncapture endpoint
NextNoUncapture == RequestStep \/ WorkerStep

SpecNoUncapture == Init /\ [][NextNoUncapture]_vars

\* the threads run: a worker thread (daemon, "while True") that can take its
\* next step takes it, a request thread inside "with WRITE_LOCK" goes on to
\* its commit, and a worker that waits for WRITE_LOCK gets it at some point
\* when the lock is free again and again
Fairness ==
    /\ \A w \in WorkerIds :
        /\ WF_vars(_register_worker_get(w))
        /\ SF_vars(_process_register_enter(w))
        /\ WF_vars(_process_register_write(w))
        /\ WF_vars(_register_worker_deliver(w))
        /\ WF_vars(_capture_worker_get(w))
        /\ SF_vars(_process_capture_enter(w))
        /\ WF_vars(_process_capture_write(w))
        /\ WF_vars(_capture_worker_deliver(w))
    /\ \A t \in RequestThreads : WF_vars(uncapture_write(t))

\* the runs over which progress is explored: those in which at most one
\* caller at a time can stop waiting, with one player and one form of the
\* name and the timestamps (more of them add data, no scheduling)
ProgressScenarios ==
    {sc \in Scenarios :
        /\ sc.env.late => sc.env.ids = OneThread
        /\ sc.env.ids # OwnPlayer
        /\ sc.env.names = {{}}}

InitFair == Init /\ [cfg |-> cfg, env |-> env] \in ProgressScenarios

SpecFair == InitFair /\ [][Next]_vars /\ Fairness

-----------------------------------------------------------------------------
(* Properties *)

\* worker w has finished _process_capture with a (body, status) result
CaptureReturned(w) ==
    /\ w \in CaptureWorkers
    /\ wpc[w] = "deliver"
    /\ wloc[w].outcome.kind = "result"

\* the number of rows the store holds for the pair
RowCount(p, s) == CountRows(captures, PairRows(captures, p, s))

\* C1: in every reachable state, whatever the interleaving of Register,
\* Capture and Uncapture and the number of workers, the captures table holds
\* at most one row per (player, species) pair.
C1_Uniqueness ==
    \A p \in PlayerIds, s \in SpeciesNames : RowCount(p, s) <= 1

\* a shiny intent met the row of its pair and upgraded it: the INSERT ran
\* against a pair that had a row, and the pair still has one row
C1_Witness ==
    \E w \in CaptureWorkers :
        /\ CaptureReturned(w)
        /\ ~wloc[w].outcome.body.inserted
        /\ wloc[w].outcome.body.shiny_upgraded
        /\ \E req \in wreq[w] : RowCount(req.steam_id, req.pokemon_name) = 1

\* this step ends _process_capture of worker w with a (body, status) result
CaptureReturns(w) ==
    /\ w \in CaptureWorkers
    /\ wpc[w] # "deliver"
    /\ wpc'[w] = "deliver"
    /\ wloc'[w].outcome.kind = "result"

\* this step gives the species its first row, and its first shiny row
FirstRow(s) == SpeciesRows(captures, s) = {} /\ SpeciesRows(captures', s) # {}
FirstShinyRow(s) == ShinyRows(captures, s) = {} /\ ShinyRows(captures', s) # {}

\* C2: when no caller uses Uncapture, for every species and every
\* interleaving of Capture intents of different players over one or more
\* capture workers, exactly one intent returns first_overall = true: the one
\* whose write gives the species its first row.  The flag has been returned
\* exactly when the species has a row, the intent that returns it is the one
\* that stores the first row, and it has not been returned before.
C2_FirstOverallOnce ==
    /\ [](\A s \in TrackedSpecies :
            hist.first_overall[s] <=> SpeciesRows(captures, s) # {})
    /\ [][\A w \in CaptureWorkers : \A req \in wreq[w] :
            CaptureReturns(w) =>
                LET flag == wloc'[w].outcome.body.first_overall
                IN  /\ flag <=> FirstRow(req.pokemon_name)
                    /\ flag => ~hist.first_overall[req.pokemon_name]]_vars

\* a second player's insert of a species has been merged and returned
\* first_overall = false, the flag having gone to the first
C2_Witness ==
    \E w \in CaptureWorkers :
        /\ CaptureReturned(w)
        /\ wloc[w].outcome.body.inserted
        /\ ~wloc[w].outcome.body.first_overall
        /\ \E req \in wreq[w] :
            /\ hist.first_overall[req.pokemon_name]
            /\ Cardinality(SpeciesRows(captures, req.pokemon_name)) = 2

\* C3: when no caller uses Uncapture, for every species and every
\* interleaving of Capture intents of different players over one or more
\* capture workers, exactly one intent returns first_shiny = true: the shiny
\* insert or shiny upgrade that takes the shiny rows of the species from 0 to
\* 1.  The flag has been returned exactly when the species has a shiny row,
\* and it has not been returned before.
C3_FirstShinyOnce ==
    /\ [](\A s \in TrackedSpecies :
            hist.first_shiny[s] <=> ShinyRows(captures, s) # {})
    /\ [][\A w \in CaptureWorkers : \A req \in wreq[w] :
            CaptureReturns(w) =>
                LET flag == wloc'[w].outcome.body.first_shiny
                IN  /\ flag <=> FirstShinyRow(req.pokemon_name)
                    /\ flag => ~hist.first_shiny[req.pokemon_name]]_vars

\* a second player's shiny intent has been merged, by insert or by upgrade,
\* and returned first_shiny = false, the flag having gone to the first
C3_Witness ==
    \E w \in CaptureWorkers :
        /\ CaptureReturned(w)
        /\ wloc[w].outcome.status = 201
        /\ ~wloc[w].outcome.body.first_shiny
        /\ \E req \in wreq[w] :
            /\ req.shiny
            /\ hist.first_shiny[req.pokemon_name]
            /\ Cardinality(ShinyRows(captures, req.pokemon_name)) = 2

\* C4 as stated: over the whole history, Uncapture included, each milestone
\* flag is returned true by at most one Capture intent per species, so an
\* intent that returns a flag is the first to return it.
C4_OncePerSpecies ==
    [][\A w \in CaptureWorkers : \A req \in wreq[w] :
        CaptureReturns(w) =>
            /\ wloc'[w].outcome.body.first_overall
                    => ~hist.first_overall[req.pokemon_name]
            /\ wloc'[w].outcome.body.first_shiny
                    => ~hist.first_shiny[req.pokemon_name]]_vars

\* C4: over the whole history, Uncapture included, a Capture intent returns
\* first_overall = true exactly when its write gives the species its first
\* row, and first_shiny = true exactly when its write gives the species its
\* first shiny row: a flag is returned at most once for as long as the species
\* keeps a row (a shiny row), and again after Uncapture has removed the last.
C4_OncePerAbsence ==
    [][\A w \in CaptureWorkers : \A req \in wreq[w] :
        CaptureReturns(w) =>
            /\ wloc'[w].outcome.body.first_overall <=> FirstRow(req.pokemon_name)
            /\ wloc'[w].outcome.body.first_shiny
                    <=> FirstShinyRow(req.pokemon_name)]_vars

\* two Capture intents of one species have both returned first_overall = true,
\* an Uncapture having removed the row of the first before the second merged
C4_Witness ==
    \E w1, w2 \in CaptureWorkers :
        /\ w1 # w2
        /\ CaptureReturned(w1) /\ wloc[w1].outcome.body.first_overall
        /\ CaptureReturned(w2) /\ wloc[w2].outcome.body.first_overall
        /\ wreq[w1] = wreq[w2]

\* the body reports no insert, no upgrade and no milestone
AllFalse(body) ==
    /\ ~body.inserted
    /\ ~body.shiny_upgraded
    /\ ~body.first_overall
    /\ ~body.first_shiny

\* the row of the pair is shiny
ShinyPair(cap, p, s) == SelectShiny(cap, p, s) = {1}

\* this step is the capture handler answering req of thread t at once
FastAnswer(t, req) ==
    /\ rpc[t] = "idle"
    /\ resp' # {}
    /\ ~IsMegaGmax(req.pokemon_name)
    /\ capture(t, req)

\* C5 as stated: once a shiny Capture intent for a pair has succeeded, the
\* stored shiny flag of the pair is true in every later state, Uncapture
\* included, and every later non-shiny Capture intent for the pair returns
\* inserted, shiny_upgraded, first_overall and first_shiny all false.
C5_ShinyForever ==
    /\ [](\A pair \in hist.shiny : ShinyPair(captures, pair[1], pair[2]))
    /\ [][\A w \in CaptureWorkers : \A req \in wreq[w] :
            /\ CaptureReturns(w)
            /\ ~req.shiny
            /\ <<req.steam_id, req.pokemon_name>> \in hist.shiny
            => AllFalse(wloc'[w].outcome.body)]_vars

\* C5: a shiny row stays shiny in every step but the DELETE of an Uncapture
\* for its pair, and while the row of a pair is shiny every non-shiny Capture
\* intent for the pair, whether the worker merges it or the fast path answers
\* it, returns inserted, shiny_upgraded, first_overall and first_shiny all
\* false and leaves the table as it is.
C5_ShinyUntilUncapture ==
    /\ [][\A p \in PlayerIds, s \in TrackedSpecies :
            ShinyPair(captures, p, s) /\ ~ShinyPair(captures', p, s) =>
                \E t \in RequestThreads :
                    /\ uncapture_write(t)
                    /\ \E req \in rreq[t] :
                        req.steam_id = p /\ req.pokemon_name = s]_vars
    /\ [][\A w \in CaptureWorkers : \A req \in wreq[w] :
            /\ CaptureReturns(w)
            /\ ~req.shiny
            /\ ShinyPair(captures, req.steam_id, req.pokemon_name)
            => /\ AllFalse(wloc'[w].outcome.body)
               /\ captures' = captures]_vars
    /\ [][\A t \in RequestThreads : \A req \in CaptureReqs(t) :
            /\ ~req.shiny
            /\ FastAnswer(t, req)
            /\ ShinyPair(captures, req.steam_id, req.pokemon_name)
            => /\ \A r \in resp' : r.status = 200 /\ AllFalse(r.body)
               /\ captures' = captures]_vars

\* a worker has merged a non-shiny intent for a pair whose row another intent
\* had made shiny in the meantime, and returned all false
C5_Witness ==
    \E w \in CaptureWorkers :
        /\ CaptureReturned(w)
        /\ AllFalse(wloc[w].outcome.body)
        /\ \E req \in wreq[w] :
            /\ ~req.shiny
            /\ ShinyPair(captures, req.steam_id, req.pokemon_name)
            /\ <<req.steam_id, req.pokemon_name>> \in hist.shiny

\* C6: when no caller uses Uncapture, a non-shiny Capture intent of a
\* registered player returns inserted = true exactly when its pair had no
\* row, which makes it the first processed submission since the row stays;
\* every repeat, whether the worker merges it or the fast path answers it,
\* returns inserted, shiny_upgraded, first_overall and first_shiny all false
\* and leaves the table as the first submission left it.
C6_Idempotent ==
    /\ [][\A p \in PlayerIds, s \in TrackedSpecies :
            RowCount(p, s) = 1 =>
                \/ PairRows(captures', p, s) = PairRows(captures, p, s)
                \/ /\ ~ShinyPair(captures, p, s)
                   /\ ShinyPair(captures', p, s)]_vars
    /\ [][\A w \in CaptureWorkers : \A req \in wreq[w] :
            CaptureReturns(w) /\ ~req.shiny =>
                LET had == PairRows(captures, req.steam_id, req.pokemon_name) # {}
                    body == wloc'[w].outcome.body
                IN  /\ body.inserted <=> ~had
                    /\ ~had => /\ ~ShinyPair(captures', req.steam_id, req.pokemon_name)
                                /\ PairRows(captures', req.steam_id, req.pokemon_name) # {}
                    /\ had => AllFalse(body) /\ captures' = captures]_vars
    /\ [][\A t \in RequestThreads : \A req \in CaptureReqs(t) :
            ~req.shiny /\ FastAnswer(t, req)
            => /\ PairRows(captures, req.steam_id, req.pokemon_name) # {}
               /\ \A r \in resp' : r.status = 200 /\ AllFalse(r.body)
               /\ captures' = captures]_vars

\* a worker has merged a repeat of a non-shiny intent whose pair has a row
\* that was never shiny, and returned all false
C6_Witness ==
    \E w \in CaptureWorkers :
        /\ CaptureReturned(w)
        /\ AllFalse(wloc[w].outcome.body)
        /\ \E req \in wreq[w] :
            /\ ~req.shiny
            /\ SelectShiny(captures, req.steam_id, req.pokemon_name) = {0}
            /\ <<req.steam_id, req.pokemon_name>> \notin hist.shiny

\* the threads inside "with WRITE_LOCK" between the reads and the commit
InWriteSection ==
    {w \in WorkerIds : wpc[w] = "write"} \cup
    {t \in RequestThreads : rpc[t] = "write"}

\* C7: in every reachable state at most one thread (a register worker in its
\* merge, a capture worker in its merge, or a request thread in uncapture) is
\* inside the write-section, and it is the one thread that holds WRITE_LOCK.
C7_MutualExclusion ==
    /\ Cardinality(InWriteSection) <= 1
    /\ WRITE_LOCK = InWriteSection

\* a capture worker is inside the write-section while another capture worker
\* that has dequeued an intent is kept out of it
C7_Witness ==
    /\ \E w \in CaptureWorkers : wpc[w] = "write" /\ WRITE_LOCK = {w}
    /\ \E w \in CaptureWorkers : wpc[w] = "process"

\* the queue a worker serves, its pending intents, capacity and worker count
QueueOf(w) == IF w \in RegisterWorkers THEN "register" ELSE "capture"
Pending(q) == IF q = "register" THEN REGISTER_QUEUE ELSE CAPTURE_QUEUE
Capacity(q) ==
    IF q = "register" THEN cfg.REGISTER_QUEUE_MAXSIZE
    ELSE cfg.CAPTURE_QUEUE_MAXSIZE
WorkersOf(q) == IF q = "register" THEN RegisterWorkers ELSE CaptureWorkers

\* this step starts the merge of the intent worker w holds: the worker gets
\* past "with WRITE_LOCK"
MergeStarts(w) ==
    /\ w \in RegisterWorkers \cup CaptureWorkers
    /\ wpc[w] = "process"
    /\ wpc'[w] # "process"

\* C8 as stated: within one queue, for every worker count >= 1, the merge
\* that starts is the merge of the intent enqueued first among the intents of
\* the queue not yet merged.
C8_MergeInEnqueueOrder ==
    [][\A w \in WorkerIds :
        MergeStarts(w) => Intent(w) = Head(hist.order[QueueOf(w)])]_vars

\* C8: within one queue, for every worker count, a worker dequeues the intent
\* enqueued first among the pending ones; when the queue has exactly one
\* worker the merges start in enqueue order too.
C8_FifoSingleWorker ==
    /\ [][\A w \in WorkerIds :
            w \in WorkersOf(QueueOf(w)) /\ wpc[w] = "get" /\ wpc'[w] = "process"
            => /\ Intent(w)' = Head(Pending(QueueOf(w)))
               /\ Pending(QueueOf(w))' = Tail(Pending(QueueOf(w)))]_vars
    /\ [][\A w \in WorkerIds :
            MergeStarts(w) /\ Cardinality(WorkersOf(QueueOf(w))) = 1
            => Intent(w) = Head(hist.order[QueueOf(w)])]_vars

\* the one capture worker has merged an intent while a different intent,
\* enqueued after it, is still pending
C8_Witness ==
    /\ Cardinality(CaptureWorkers) = 1
    /\ \E w \in CaptureWorkers :
        /\ wpc[w] = "deliver"
        /\ CAPTURE_QUEUE # <<>>
        /\ hist.order["capture"] = CAPTURE_QUEUE
        /\ Head(CAPTURE_QUEUE).req \notin wreq[w]

\* the 429 answers of capture and register
CaptureQueueFull ==
    ErrorResponse(HTTPException(429, "Capture queue is full; try again shortly."))
RegisterQueueFull ==
    ErrorResponse(HTTPException(429, "Register queue is full; try again shortly."))

\* this step leaves the queues, the workers and the tables as they are and
\* returns thread t to its caller
Rejected(t) ==
    /\ rpc'[t] = "idle"
    /\ UNCHANGED <<REGISTER_QUEUE, CAPTURE_QUEUE, unfinished_tasks, hist,
                   wpc, wreq, wfut, wloc, players, captures>>

\* C9: a submit to a queue that holds its capacity (>= 1) of pending intents
\* is answered 429 in the same step, with nothing enqueued and nothing run;
\* and no queue ever holds more pending intents than its capacity.
C9_Backpressure ==
    /\ [](\A q \in Queues : Len(Pending(q)) <= Capacity(q))
    /\ [][\A t \in RequestThreads :
            /\ rpc[t] = "put"
            /\ Len(CAPTURE_QUEUE) >= cfg.CAPTURE_QUEUE_MAXSIZE
            /\ capture_put(t)
            => resp' = {CaptureQueueFull} /\ Rejected(t)]_vars
    /\ [][\A t \in RequestThreads : \A req \in RegisterReqs(t) :
            /\ rpc[t] = "idle"
            /\ Len(REGISTER_QUEUE) >= cfg.REGISTER_QUEUE_MAXSIZE
            /\ register(t, req)
            => resp' = {RegisterQueueFull} /\ Rejected(t)]_vars

\* a capture has just been answered 429 while the capture queue holds its
\* capacity of pending intents
C9_Witness ==
    /\ resp = {CaptureQueueFull}
    /\ Len(CAPTURE_QUEUE) = cfg.CAPTURE_QUEUE_MAXSIZE

\* queue q has capacity 1 and one worker, which has dequeued an intent and has
\* not finished its merge
SingleWorkerBusy(q) ==
    /\ Capacity(q) = 1
    /\ Cardinality(WorkersOf(q)) = 1
    /\ \E w \in WorkersOf(q) : wpc[w] \in {"process", "write"}

\* C10 as stated: with capacity 1 and the single worker in the middle of the
\* first intent, the second submit (the only other intent outstanding being
\* the one the worker holds) is answered 429.
C10_SecondRejected ==
    /\ [][\A t \in RequestThreads :
            /\ rpc[t] = "put"
            /\ SingleWorkerBusy("capture")
            /\ unfinished_tasks["capture"] = 1
            /\ capture_put(t)
            => resp' = {CaptureQueueFull}]_vars
    /\ [][\A t \in RequestThreads : \A req \in RegisterReqs(t) :
            /\ rpc[t] = "idle"
            /\ SingleWorkerBusy("register")
            /\ unfinished_tasks["register"] = 1
            /\ register(t, req)
            => resp' = {RegisterQueueFull}]_vars

\* C10: with capacity 1 and the single worker in the middle of an intent, the
\* second submit is accepted and waits in the queue, the intent the worker
\* holds no longer counting as pending; a submit is answered 429 exactly when
\* another intent is already waiting in the queue, that is from the third on.
C10_ThirdRejected ==
    /\ [][\A t \in RequestThreads :
            /\ rpc[t] = "put"
            /\ SingleWorkerBusy("capture")
            /\ capture_put(t)
            => /\ resp' = {CaptureQueueFull} <=> unfinished_tasks["capture"] = 2
               /\ unfinished_tasks["capture"] = 1 =>
                    /\ Len(CAPTURE_QUEUE') = 1
                    /\ Head(CAPTURE_QUEUE').req \in rreq[t]]_vars
    /\ [][\A t \in RequestThreads : \A req \in RegisterReqs(t) :
            /\ rpc[t] = "idle"
            /\ SingleWorkerBusy("register")
            /\ register(t, req)
            => /\ resp' = {RegisterQueueFull} <=> unfinished_tasks["register"] = 2
               /\ unfinished_tasks["register"] = 1 =>
                    /\ Len(REGISTER_QUEUE') = 1
                    /\ Head(REGISTER_QUEUE').req = req]_vars

\* the single worker is in the middle of the first intent, the second submit
\* waits in the queue of capacity 1, and a third has just been answered 429
C10_Witness ==
    /\ SingleWorkerBusy("capture")
    /\ Len(CAPTURE_QUEUE) = 1
    /\ unfinished_tasks["capture"] = 2
    /\ resp = {CaptureQueueFull}

\* the requests waiting in queue q, in order
PendingReqs(q) == [i \in 1..Len(Pending(q)) |-> Pending(q)[i].req]

\* this step is a worker of queue q dequeuing the intent at the head
Dequeues(q) ==
    \E w \in WorkersOf(q) :
        /\ wpc[w] = "get"
        /\ wpc'[w] = "process"
        /\ wreq'[w] = {Head(Pending(q)).req}
        /\ PendingReqs(q)' = Tail(PendingReqs(q))

\* C11: with the worker threads scheduled fairly, every enqueued intent is
\* merged and its Future resolved, whether its caller got 202, still waits or
\* got 503.  An intent leaves its queue only when a worker dequeues it, a
\* timeout of the caller leaves queues, workers and counts as they are, a
\* non-empty queue is dequeued again and again, and a worker that holds an
\* intent gets to set its Future and to take the next one.
C11_NoCancellation ==
    /\ [][\A q \in Queues :
            PendingReqs(q)' = PendingReqs(q)
            \/ Dequeues(q)
            \/ /\ Len(Pending(q)') = Len(Pending(q)) + 1
               /\ SubSeq(PendingReqs(q)', 1, Len(Pending(q))) = PendingReqs(q)]_vars
    /\ [][\A t \in RequestThreads :
            rpc[t] = "wait" /\ rfut[t] = {PendingFuture} /\ await_timeout(t)
            => /\ \A r \in resp' : r.status = 503
               /\ UNCHANGED <<wpc, wreq, wloc, unfinished_tasks, players, captures>>]_vars
    /\ \A q \in Queues :
        []<>(Pending(q) = <<>>) \/ []<><<Dequeues(q)>>_vars
    /\ \A w \in WorkerIds : (wpc[w] # "get") ~> (wpc[w] = "get")

\* a synchronous capture whose caller got 503 has been merged all the same:
\* its worker holds the result for a Future no request thread waits on
C11_Witness ==
    /\ ~cfg.CAPTURE_IMMEDIATE_ACK
    /\ \E w \in CaptureWorkers :
        /\ CaptureReturned(w)
        /\ wfut[w] = {}
        /\ wloc[w].outcome.body.inserted

\* the positions of a live worker thread
Alive == {"get", "process", "write", "deliver"}

\* the live workers of queue q
LiveWorkers(q) == {w \in WorkersOf(q) : wpc[w] \in Alive}

\* this step is worker w ending a turn whose merge raised
DeliversFailure(w) ==
    /\ w \in RegisterWorkers \cup CaptureWorkers
    /\ wpc[w] = "deliver"
    /\ wpc'[w] # "deliver"
    /\ wloc[w].outcome.kind = "exception"

\* C12: when the merge of an intent raises (Player not registered or a
\* failing statement), the worker sets that exception on the Future of the
\* intent, counts the task done and is back at get() for the next intent;
\* every worker started for a queue is live in every reachable state.
C12_WorkerSurvives ==
    /\ [](\A q \in Queues : LiveWorkers(q) = WorkersOf(q))
    /\ [][\A w \in WorkerIds :
            DeliversFailure(w) =>
                /\ wpc'[w] = "get"
                /\ unfinished_tasks'[QueueOf(w)] = unfinished_tasks[QueueOf(w)] - 1
                /\ \A t \in RequestThreads :
                    wfut[w] = {t} =>
                        rfut'[t] = {[state |-> "exception",
                                     exc |-> wloc[w].outcome.exc]}]_vars

\* the one capture worker has delivered a failure, which its caller has not
\* picked up yet, and has dequeued the next intent
C12_Witness ==
    /\ Cardinality(CaptureWorkers) = 1
    /\ \E t \in RequestThreads :
        /\ rpc[t] = "wait"
        /\ \E f \in rfut[t] : f.state = "exception"
        /\ \E r \in rreq[t] : r.kind = "capture"
    /\ \E w \in CaptureWorkers : wpc[w] = "process"

\* the prefixes of the forms that are not tracked
FormPrefixes == {<<"m", "e", "g", "a", " ">>, <<"g", "m", "a", "x", " ">>}

\* name begins, in any letter case, with one of the prefixes
HasFormPrefix(name) ==
    \E p \in FormPrefixes :
        /\ Len(name) >= Len(p)
        /\ \A i \in 1..Len(p) : LowerChar(name[i]) = p[i]

\* the Capture requests somewhere between the handler and the end of a merge
CapturesInFlight ==
    {r \in UNION {rreq[t] : t \in RequestThreads} : r.kind = "capture"}
    \cup {CAPTURE_QUEUE[i].req : i \in 1..Len(CAPTURE_QUEUE)}
    \cup UNION {wreq[w] : w \in CaptureWorkers}

\* C13: a Capture whose species begins with "mega " or "gmax " in any letter
\* case is answered 200 with ignored = true by the handler, whatever the
\* queue holds, the ack mode is and whether the player is registered; it is
\* never enqueued, and no row of captures has such a species.
C13_MegaGmaxIgnored ==
    /\ [](\A r \in BagToSet(captures) : ~HasFormPrefix(r.pokemon_name))
    /\ [](\A r \in CapturesInFlight : ~HasFormPrefix(r.pokemon_name))
    /\ [][\A t \in RequestThreads : \A req \in CaptureReqs(t) :
            rpc[t] = "idle" /\ HasFormPrefix(req.pokemon_name) /\ capture(t, req)
            => /\ resp' = {Response(200, IgnoredBody)}
               /\ IgnoredBody.ignored
               /\ Rejected(t)]_vars

\* a Mega / Gmax capture has just been answered "ignored" while the capture
\* queue was full
C13_Witness ==
    /\ resp = {Response(200, IgnoredBody)}
    /\ Len(CAPTURE_QUEUE) = cfg.CAPTURE_QUEUE_MAXSIZE

PlayerNotRegistered == HTTPException(400, "Player not registered")

\* this step is worker w running the reads of _process_capture for req
MergeReads(w, req) ==
    /\ w \in CaptureWorkers
    /\ wpc[w] = "process"
    /\ wpc'[w] # "process"
    /\ req \in wreq[w]

\* C14: the merge of a Capture intent whose player has no row in players
\* when the merge runs raises (Player not registered, unless the store
\* itself failed first) and writes nothing, and the caller that waits for
\* this intent is answered 400 "Player not registered".
C14_UnknownPlayer ==
    /\ [][\A w \in WorkerIds : \A req \in wreq[w] :
            MergeReads(w, req) /\ SelectPlayer(players, req.steam_id) = {}
            => /\ wpc'[w] = "deliver"
               /\ wloc'[w].outcome \in {Raised(PlayerNotRegistered),
                                        Raised(OperationalError)}
               /\ UNCHANGED <<players, captures>>]_vars
    /\ [][\A t \in RequestThreads :
            /\ rpc[t] = "wait"
            /\ rfut[t] = {[state |-> "exception", exc |-> PlayerNotRegistered]}
            /\ rpc'[t] # "wait"
            => /\ resp' = {Response(400, [detail |-> "Player not registered"])}
               /\ UNCHANGED <<players, captures>>]_vars

\* a waiting caller has just been answered 400 and both tables are empty
C14_Witness ==
    /\ resp = {Response(400, [detail |-> "Player not registered"])}
    /\ \A p \in PlayerIds : SelectPlayer(players, p) = {}
    /\ captures = EmptyBag

\* this step is register worker w running the write of _process_register
\* for req
RegisterWrites(w, req) ==
    /\ w \in RegisterWorkers
    /\ wpc[w] = "write"
    /\ wpc'[w] = "deliver"
    /\ req \in wreq[w]

\* row n holds the name fields of req and the timestamp now of this merge
Refreshed(n, req, now) ==
    /\ n.steam_id = req.steam_id
    /\ n.steam_name = req.steam_name
    /\ n.steam_name_raw = req.steam_name
    /\ n.steam_name_safe = make_safe_name(req.steam_name)
    /\ n.updated_at = now
    /\ n.last_seen_at = now

\* C15: a Register merge never ends in a uniqueness conflict; when it
\* returns, created is true exactly when players had no row of the steam_id
\* as the merge ran, updated is its negation, the status is 201 for created
\* and 200 otherwise, and players then holds one row of the steam_id with
\* the name fields of the request and updated_at = last_seen_at = now; on an
\* existing row steam_id and created_at stay as they were, and the rows of
\* the other players are untouched.
C15_RegisterUpsert ==
    [][\A w \in WorkerIds : \A req \in wreq[w] :
        RegisterWrites(w, req) =>
            LET out == wloc'[w].outcome
                now == wloc[w].now
                old == SelectPlayer(players, req.steam_id)
                new == SelectPlayer(players', req.steam_id)
            IN  /\ out # Raised(IntegrityError)
                /\ wloc[w].exists = (old # {})
                /\ out.kind = "exception" => players' = players
                /\ out.kind = "result" =>
                    /\ out.body.created = (old = {})
                    /\ out.body.updated = ~out.body.created
                    /\ out.status = IF out.body.created THEN 201 ELSE 200
                    /\ Cardinality(new) = 1
                    /\ \A n \in new :
                        /\ Refreshed(n, req, now)
                        /\ \A o \in old : n.created_at = o.created_at
                        /\ old = {} => n.created_at = now
                    /\ players' \ new = players \ old]_vars

\* a repeated Register has returned updated, and the row keeps the creation
\* time of the first one, which is not the time of this merge
C15_Witness ==
    \E w \in RegisterWorkers :
        /\ wpc[w] = "deliver"
        /\ wloc[w].outcome.kind = "result"
        /\ wloc[w].outcome.body.updated
        /\ \E req \in wreq[w] : \E n \in SelectPlayer(players, req.steam_id) :
            n.created_at # n.updated_at

\* the results of Register for steam_id p that callers are about to receive
RegisterResultsFor(p) ==
    {t \in RequestThreads :
        /\ rpc[t] = "wait"
        /\ \E r \in rreq[t] : r.kind = "register" /\ r.steam_id = p
        /\ \E f \in rfut[t] : f.state = "result"}

\* C16: whatever the interleaving of the Register intents for a steam_id
\* that had no row at the start, over one or more register workers, created
\* = true (201) is returned once, by the merge that found no row, every
\* other merge returns created = false and updated = true (200) (or the
\* failure of a store statement), and players holds at most one row of the
\* steam_id, exactly one from the first successful merge on.
C16_OneCreated ==
    /\ [](\A p \in PlayerIds :
            /\ Cardinality(SelectPlayer(players, p)) <= 1
            /\ hist.created[p] <= 1
            /\ p \notin env.known =>
                (hist.created[p] = 1 <=> SelectPlayer(players, p) # {}))
    /\ [][\A w \in WorkerIds : \A req \in wreq[w] :
            RegisterWrites(w, req) =>
                LET out == wloc'[w].outcome
                    first == hist.created[req.steam_id] = 0
                             /\ req.steam_id \notin env.known
                IN  \/ out = Raised(OperationalError)
                    \/ /\ out.kind = "result"
                       /\ out.body.created = first
                       /\ out.body.updated = ~first
                       /\ out.status = IF first THEN 201 ELSE 200
                       /\ Cardinality(SelectPlayer(players', req.steam_id)) = 1]_vars

\* with two register workers, two callers that registered the same unknown
\* steam_id at once hold their results: one created (201), one updated
\* (200), and players has one row
C16_Witness ==
    /\ Cardinality(RegisterWorkers) = 2
    /\ \E p \in PlayerIds \ env.known :
        /\ RegisterResultsFor(p) = RequestThreads
        /\ Cardinality({t \in RequestThreads :
                \E f \in rfut[t] : f.body.created /\ f.status = 201}) = 1
        /\ Cardinality({t \in RequestThreads :
                \E f \in rfut[t] : f.body.updated /\ f.status = 200}) = 1
        /\ Cardinality(SelectPlayer(players, p)) = 1
        /\ hist.created[p] = 1

\* the answers of an Uncapture that changes nothing
UncaptureRefused ==
    {{ErrorResponse(PlayerNotRegistered)}, {ErrorResponse(OperationalError)}}

\* C17: an Uncapture for a steam_id without a row in players is answered
\* 400 "Player not registered" (or the failure of the store) and changes no
\* table; for a player with a row it removes the row of the (steam_id,
\* pokemon_name) pair whatever its shiny flag, answers deleted = 1 when
\* there was a row and 0 when there was none, and leaves every other row
\* of captures and every row of players as it was.
C17_Uncapture ==
    /\ [][\A t \in RequestThreads : \A req \in UncaptureReqs(t) :
            /\ rpc[t] = "idle"
            /\ SelectPlayer(players, req.steam_id) = {}
            /\ uncapture(t, req)
            => /\ resp' \in UncaptureRefused
               /\ rpc'[t] = "idle"
               /\ UNCHANGED <<players, captures>>]_vars
    /\ [][\A t \in RequestThreads : \A req \in rreq[t] :
            rpc[t] = "write" /\ rpc'[t] # "write" =>
                LET old == PairRows(captures, req.steam_id, req.pokemon_name)
                    n == CountRows(captures, old)
                IN  /\ players' = players
                    /\ SelectPlayer(players, req.steam_id) # {}
                    /\ \/ resp' = {ErrorResponse(OperationalError)}
                          /\ captures' = captures
                       \/ /\ resp' = {Response(200, [ok |-> TRUE, deleted |-> n])}
                          /\ n = IF old = {} THEN 0 ELSE 1
                          /\ PairRows(captures', req.steam_id, req.pokemon_name) = {}
                          /\ BagToSet(captures') = BagToSet(captures) \ old
                          /\ \A r \in BagToSet(captures') :
                                CopiesIn(r, captures') = CopiesIn(r, captures)]_vars

\* an Uncapture has just deleted the shiny row of one player, and the row of
\* another player is still there
C17_Witness ==
    /\ resp = {Response(200, [ok |-> TRUE, deleted |-> 1])}
    /\ \E pair \in hist.shiny : PairRows(captures, pair[1], pair[2]) = {}
    /\ captures # EmptyBag

\* the status that goes with a Capture body
StatusOf(body) == IF body.inserted \/ body.shiny_upgraded THEN 201 ELSE 200

\* this step hands thread t the (body, status) result f of its Capture
CaptureAnswered(t, f) ==
    /\ rpc[t] = "wait"
    /\ rpc'[t] = "idle"
    /\ f \in rfut[t]
    /\ f.state = "result"
    /\ \E r \in rreq[t] : r.kind = "capture"

\* C18: the result of a Capture merge, and the answer to the caller that
\* waits for it, has status 201 exactly when inserted or shiny_upgraded is
\* true and 200 otherwise; a shiny Capture of a pair whose row is not shiny
\* returns inserted = false, shiny_upgraded = true and 201 and makes the row
\* shiny; a shiny Capture of a pair whose row is shiny, merged by a worker
\* or answered by the fast path, returns all flags false with 200 and
\* leaves the table as it is.
C18_CaptureStatus ==
    /\ [][\A w \in CaptureWorkers : \A req \in wreq[w] :
            CaptureReturns(w) =>
                LET out == wloc'[w].outcome
                    had == SelectShiny(captures, req.steam_id, req.pokemon_name)
                IN  /\ out.status = StatusOf(out.body)
                    /\ req.shiny /\ had = {0} =>
                        /\ ~out.body.inserted
                        /\ out.body.shiny_upgraded
                        /\ out.status = 201
                        /\ ShinyPair(captures', req.steam_id, req.pokemon_name)
                    /\ req.shiny /\ had = {1} =>
                        /\ AllFalse(out.body)
                        /\ out.status = 200
                        /\ captures' = captures]_vars
    /\ [][\A t \in RequestThreads : \A f \in rfut[t] :
            CaptureAnswered(t, f) =>
                /\ resp' = {Response(f.status, f.body)}
                /\ f.status = StatusOf(f.body)]_vars
    /\ [][\A t \in RequestThreads : \A req \in CaptureReqs(t) :
            req.shiny /\ FastAnswer(t, req)
            => /\ ShinyPair(captures, req.steam_id, req.pokemon_name)
               /\ \A r \in resp' : r.status = 200 /\ AllFalse(r.body)
               /\ captures' = captures]_vars

\* a waiting caller has just been answered 201 for a shiny upgrade: no
\* insert, shiny_upgraded = true
C18_Witness ==
    \E r \in resp :
        /\ r.status = 201
        /\ "shiny_upgraded" \in DOMAIN r.body
        /\ ~r.body.inserted
        /\ r.body.shiny_upgraded

\* queue q is in immediate-ack mode
Detached(q) ==
    IF q = "register" THEN cfg.REGISTER_IMMEDIATE_ACK ELSE cfg.CAPTURE_IMMEDIATE_ACK

\* the 202 of the immediate-ack mode
Queued == Response(202, [ok |-> TRUE, queued |-> TRUE])

\* the threads that wait for a result of queue q
Waiting(q) ==
    {t \in RequestThreads : rpc[t] = "wait" /\ \E r \in rreq[t] : r.kind = q}

\* this step is a worker ending the merge of the intent req that no caller
\* waits for
DetachedMergeEnds(w, req) ==
    /\ w \in RegisterWorkers \cup CaptureWorkers
    /\ Detached(QueueOf(w))
    /\ wpc[w] \in {"process", "write"}
    /\ wpc'[w] = "deliver"
    /\ req \in wreq[w]

\* C19: in immediate-ack mode every submit that put_nowait accepts is
\* answered 202 in the step of the put, no caller ever waits on that queue,
\* and the intent is merged like any other: its merge ends, with a result or
\* with an exception (Player not registered, a failing statement) that no
\* caller sees, and a result's insert, upgrade or player row is in the
\* tables when the merge returns.
C19_DetachedAck ==
    /\ [](\A q \in Queues : Detached(q) => Waiting(q) = {})
    /\ [][\A q \in Queues :
            Detached(q) /\ Len(Pending(q)') = Len(Pending(q)) + 1
            => /\ resp' = {Queued}
               /\ Pending(q)'[Len(Pending(q)')].fut = {}
               /\ UNCHANGED <<players, captures, wpc>>]_vars
    /\ [][\A w \in WorkerIds : \A req \in wreq[w] :
            DetachedMergeEnds(w, req) =>
                LET out == wloc'[w].outcome
                IN  /\ wfut[w] = {}
                    /\ out.kind = "exception" => UNCHANGED <<players, captures>>
                    /\ out.kind = "result" /\ req.kind = "register" =>
                        \E n \in SelectPlayer(players', req.steam_id) :
                            Refreshed(n, req, wloc[w].now)
                    /\ out.kind = "result" /\ req.kind = "capture" =>
                        /\ PairRows(captures', req.steam_id, req.pokemon_name) # {}
                        /\ out.body.inserted =>
                            PairRows(captures, req.steam_id, req.pokemon_name) = {}
                        /\ req.shiny =>
                            ShinyPair(captures', req.steam_id, req.pokemon_name)]_vars
    /\ [][\A w \in WorkerIds :
            wpc[w] = "deliver" /\ wpc'[w] = "get" /\ wfut[w] = {}
            => UNCHANGED <<rfut, rpc, players, captures>>]_vars
    /\ \A q \in Queues :
        (Detached(q) /\ Pending(q) # <<>>) ~>
            (\E w \in WorkersOf(q) : wpc[w] = "deliver" /\ wfut[w] = {})

\* in immediate-ack mode a capture whose caller got 202 has been merged and
\* has inserted its row
C19_Witness ==
    /\ cfg.CAPTURE_IMMEDIATE_ACK
    /\ \E w \in CaptureWorkers :
        /\ CaptureReturned(w)
        /\ wfut[w] = {}
        /\ wloc[w].outcome.body.inserted
        /\ \E req \in wreq[w] :
            PairRows(captures, req.steam_id, req.pokemon_name) # {}

\* the exceptions on their way from a worker to a handler: the outcome of a
\* merge not yet set on the Future, and the Futures that hold one
FailuresInFlight ==
    {wloc[w].outcome.exc : w \in {v \in WorkerIds :
        wpc[v] = "deliver" /\ wloc[v].outcome.kind = "exception"}}
    \cup {f.exc : f \in {g \in UNION {rfut[t] : t \in RequestThreads} :
        g.state = "exception"}}

StoreFailures == {OperationalError, IntegrityError}

\* C20 as stated: the only failures a worker sets on a Future are failures of
\* the store; Player not registered is found before the enqueue and never
\* resolves a Future.
C20_OnlyStoreFailures ==
    FailuresInFlight \subseteq StoreFailures

\* C20: the failures a worker sets on a Future are the failures of store
\* statements and Player not registered, which the capture merge raises
\* under the lock; a register merge raises store failures only.  The
\* capture handler does not look at players: a Capture for a steam_id
\* without a row that is not filtered as Mega / Gmax goes on to the
\* enqueue, and, the store working, its merge ends with Player not
\* registered, which only then reaches the caller as 400.
C20_WorkerFailures ==
    /\ [](FailuresInFlight \subseteq {OperationalError, PlayerNotRegistered})
    /\ [](\A w \in RegisterWorkers :
            wpc[w] = "deliver" /\ wloc[w].outcome.kind = "exception"
            => wloc[w].outcome.exc = OperationalError)
    /\ [][\A w \in WorkerIds : \A req \in wreq[w] :
            /\ MergeReads(w, req)
            /\ SelectPlayer(players, req.steam_id) = {}
            /\ env.db_ok = {TRUE}
            => /\ wloc'[w].outcome.kind = "exception"
               /\ wloc'[w].outcome.exc = PlayerNotRegistered]_vars
    /\ [][\A t \in RequestThreads :
            /\ \E r \in rreq[t] : r.kind = "capture"
            /\ resp' = {Response(400, [detail |-> "Player not registered"])}
            /\ rpc'[t] = "idle"
            => /\ rpc[t] = "wait"
               /\ rfut[t] = {[state |-> "exception", exc |-> PlayerNotRegistered]}]_vars
    /\ [][\A t \in RequestThreads : \A req \in CaptureReqs(t) :
            /\ rpc[t] = "idle"
            /\ SelectPlayer(players, req.steam_id) = {}
            /\ ~HasFormPrefix(req.pokemon_name)
            /\ capture(t, req)
            => /\ rpc'[t] = "put"
               /\ resp' = {}]_vars

\* a capture worker has set Player not registered on the Future of a caller
\* that waits
C20_Witness ==
    \E t \in RequestThreads :
        /\ rpc[t] = "wait"
        /\ rfut[t] = {[state |-> "exception", exc |-> PlayerNotRegistered]}

\* this step resolves the pending Future that thread t waits on with a result
Resolves(t) ==
    /\ rfut[t] = {PendingFuture}
    /\ \E f \in rfut'[t] : f.state = "result"

\* this step is worker w ending a merge with a (body, status) result
MergeReturns(w) ==
    /\ w \in RegisterWorkers \cup CaptureWorkers
    /\ wpc[w] \in {"process", "write"}
    /\ wpc'[w] = "deliver"
    /\ wloc'[w].outcome.kind = "result"

\* C21: the Future of a waiting caller is pending for as long as the merge
\* of its intent runs; the merge returns its result with the writes in the
\* tables and WRITE_LOCK released, and only a later step of the worker,
\* which holds no lock and writes nothing, sets the result on the Future.  A
\* caller that receives the success of its Register finds the row of its
\* player, and when no Uncapture runs one that receives the success of its
\* Capture finds the row of its pair.
C21_ResolvedAfterCommit ==
    /\ [](\A w \in WorkerIds : \A t \in wfut[w] :
            wpc[w] \in {"process", "write"} => rfut[t] = {PendingFuture})
    /\ [][\A t \in RequestThreads :
            Resolves(t) =>
                \E w \in WorkerIds :
                    /\ wfut[w] = {t}
                    /\ wpc[w] = "deliver"
                    /\ w \notin WRITE_LOCK
                    /\ UNCHANGED <<players, captures, WRITE_LOCK>>]_vars
    /\ [][\A w \in WorkerIds : \A req \in wreq[w] :
            MergeReturns(w) =>
                /\ w \notin WRITE_LOCK'
                /\ req.kind = "register" =>
                    SelectPlayer(players', req.steam_id) # {}
                /\ req.kind = "capture" =>
                    PairRows(captures', req.steam_id, req.pokemon_name) # {}]_vars
    /\ [](\A t \in RequestThreads : \A f \in rfut[t] : \A req \in rreq[t] :
            rpc[t] = "wait" /\ f.state = "result" =>
                /\ req.kind = "register" =>
                    SelectPlayer(players, req.steam_id) # {}
                /\ req.kind = "capture" /\ "uncapture" \notin env.ops =>
                    PairRows(captures, req.steam_id, req.pokemon_name) # {})

\* a caller is about to receive the result of its Capture, which inserted:
\* the row is in the table and the lock is free
C21_Witness ==
    /\ WRITE_LOCK = {}
    /\ \E t \in RequestThreads : \E f \in rfut[t] : \E req \in rreq[t] :
        /\ rpc[t] = "wait"
        /\ req.kind = "capture"
        /\ f.state = "result"
        /\ f.body.inserted
        /\ PairRows(captures, req.steam_id, req.pokemon_name) # {}

\* COUNT(DISTINCT steam_id) and the number of shiny rows of the species in
\* the table as it is now
PlayersWith(s) == Cardinality({r.steam_id : r \in SpeciesRows(captures, s)})
ShinyCount(s) == CountRows(captures, ShinyRows(captures, s))

\* C22: while a Capture merge is between its snapshot and its write the
\* snapshot is true of the table (no other write comes in between), and the
\* merge returns first_overall = inserted and no row of the species before
\* the write, first_shiny = shiny and no shiny row of the species before the
\* write and (inserted or shiny_upgraded).
C22_FirstFlags ==
    /\ [](\A w \in CaptureWorkers : \A req \in wreq[w] :
            wpc[w] = "write" =>
                /\ wloc[w].pre_total_players = PlayersWith(req.pokemon_name)
                /\ wloc[w].pre_shiny = ShinyCount(req.pokemon_name))
    /\ [][\A w \in CaptureWorkers : \A req \in wreq[w] :
            wpc[w] = "write" /\ CaptureReturns(w) =>
                LET body == wloc'[w].outcome.body
                IN  /\ body.first_overall =
                        (body.inserted /\ SpeciesRows(captures, req.pokemon_name) = {})
                    /\ body.first_shiny =
                        (/\ req.shiny
                         /\ ShinyRows(captures, req.pokemon_name) = {}
                         /\ (body.inserted \/ body.shiny_upgraded))]_vars

\* a shiny upgrade has returned first_shiny = false, another player holding
\* a shiny row of the species
C22_Witness ==
    \E w \in CaptureWorkers :
        /\ CaptureReturned(w)
        /\ wloc[w].outcome.body.shiny_upgraded
        /\ ~wloc[w].outcome.body.first_shiny
        /\ \E req \in wreq[w] : req.shiny

\* this step is worker w leaving a merge by the failure of a statement
MergeFails(w) ==
    /\ w \in RegisterWorkers \cup CaptureWorkers
    /\ wpc[w] \in {"process", "write"}
    /\ wpc'[w] = "deliver"
    /\ wloc'[w].outcome.kind = "exception"
    /\ wloc'[w].outcome.exc \in StoreFailures

\* what a caller gets for an exception that is not an HTTPException
InternalError == Response(500, [detail |-> "Internal Server Error"])

RegisterPending(p) ==
    \/ \E i \in 1..Len(REGISTER_QUEUE) : REGISTER_QUEUE[i].req.steam_id = p
    \/ \E w \in RegisterWorkers :
        wpc[w] = "process" /\ \E r \in wreq[w] : r.steam_id = p

\* C24: nothing orders the two queues.  A capture worker at get() takes the
\* head of a non-empty capture queue, and one at the start of a merge enters
\* when WRITE_LOCK is free, whatever the register queue and the register
\* workers hold; a Capture merge that starts while a Register intent for
\* its new player is still pending finds no row and, the store working,
\* raises Player not registered.
C24_NoCrossQueueOrder ==
    /\ [](\A w \in CaptureWorkers :
            wpc[w] = "get" /\ CAPTURE_QUEUE # <<>>
            => ENABLED _capture_worker_get(w))
    /\ [](\A w \in CaptureWorkers :
            wpc[w] = "process" /\ WRITE_LOCK = {}
            => ENABLED _process_capture_enter(w))
    /\ [][\A w \in WorkerIds : \A req \in wreq[w] :
            /\ MergeReads(w, req)
            /\ RegisterPending(req.steam_id)
            /\ SelectPlayer(players, req.steam_id) = {}
            /\ env.db_ok = {TRUE}
            => /\ wloc'[w].outcome.kind = "exception"
               /\ wloc'[w].outcome.exc = PlayerNotRegistered]_vars

\* the one caller got 202 for the Register of its new player and then sent
\* a Capture, which it waits for: the Capture has been merged and has
\* failed with Player not registered while the Register is still pending
C24_Witness ==
    /\ env.ids = OneThread
    /\ cfg.REGISTER_IMMEDIATE_ACK
    /\ \E t \in RequestThreads : \E req \in rreq[t] :
        /\ rpc[t] = "wait"
        /\ req.kind = "capture"
        /\ rfut[t] = {[state |-> "exception", exc |-> PlayerNotRegistered]}
        /\ RegisterPending(req.steam_id)
        /\ SelectPlayer(players, req.steam_id) = {}

\* the fast-path condition on the row the pre-check reads for req
PrecheckHit(req) ==
    LET row == SelectShiny(captures, req.steam_id, req.pokemon_name)
    IN  row # {} /\ (row = {1} \/ ~req.shiny)

\* this step is the capture handler of thread t running up to the enqueue
\* for a request that the Mega / Gmax filter lets through
Prechecks(t, req) ==
    /\ rpc[t] = "idle"
    /\ ~HasFormPrefix(req.pokemon_name)
    /\ capture(t, req)

\* C25: the capture handler answers at once only when the pre-check reads
\* a row of the pair that is shiny or the intent is not shiny: the answer is
\* 200 with all flags false, and the queues, the Futures, the workers and
\* the tables are unchanged; when the read works it always answers so on
\* such a row.  When there is no row, or the row is not shiny and the
\* intent is shiny, the handler goes on to put_nowait with this request,
\* which appends it to the capture queue unless the queue is full.
C25_FastPath ==
    /\ [][\A t \in RequestThreads : \A req \in CaptureReqs(t) :
            Prechecks(t, req) =>
                /\ resp' # {} =>
                    /\ PrecheckHit(req)
                    /\ \A r \in resp' : r.status = 200 /\ AllFalse(r.body)
                    /\ Rejected(t)
                    /\ rfut' = rfut
                /\ PrecheckHit(req) /\ env.db_ok = {TRUE} => resp' # {}
                /\ resp' = {} =>
                    /\ rpc'[t] = "put"
                    /\ rreq'[t] = {req}
                    /\ UNCHANGED <<CAPTURE_QUEUE, players, captures, rfut>>]_vars
    /\ [][\A t \in RequestThreads : \A req \in rreq[t] :
            /\ rpc[t] = "put"
            /\ rpc'[t] # "put"
            /\ Len(CAPTURE_QUEUE) < cfg.CAPTURE_QUEUE_MAXSIZE
            => /\ Len(CAPTURE_QUEUE') = Len(CAPTURE_QUEUE) + 1
               /\ CAPTURE_QUEUE'[Len(CAPTURE_QUEUE')].req = req]_vars

\* in immediate-ack mode, where no result of a worker reaches a caller, a
\* Capture has just been answered 200 with all flags false
C25_Witness ==
    /\ cfg.CAPTURE_IMMEDIATE_ACK
    /\ \E r \in resp :
        /\ r.status = 200
        /\ "inserted" \in DOMAIN r.body
        /\ AllFalse(r.body)

\* C26: when the SELECT of the pre-check fails the handler answers no
\* error: whatever the table holds for the pair, the handler can go on to
\* put_nowait with the request, as it does when the read finds no row, and
\* from there the request is enqueued or answered 429 like any other.
C26_PrecheckFailure ==
    /\ [][\A t \in RequestThreads : \A req \in CaptureReqs(t) :
            rpc[t] = "idle" /\ capture(t, req)
            => \A r \in resp' : r.status = 200]_vars
    /\ [](\A t \in RequestThreads : \A req \in CaptureReqs(t) :
            /\ rpc[t] = "idle"
            /\ ~HasFormPrefix(req.pokemon_name)
            /\ FALSE \in env.db_ok
            => ENABLED (/\ capture(t, req)
                        /\ rpc'[t] = "put"
                        /\ rreq'[t] = {req}
                        /\ resp' = {}))
    /\ [][\A t \in RequestThreads :
            rpc[t] = "put" /\ rpc'[t] # "put" =>
                \/ resp' = {CaptureQueueFull}
                   /\ Len(CAPTURE_QUEUE) >= cfg.CAPTURE_QUEUE_MAXSIZE
                   /\ CAPTURE_QUEUE' = CAPTURE_QUEUE
                \/ Len(CAPTURE_QUEUE') = Len(CAPTURE_QUEUE) + 1]_vars

\* the one caller is at put_nowait with a request whose pair has a row that
\* the fast path answers: its pre-check read failed
C26_Witness ==
    /\ env.ids = OneThread
    /\ ~cfg.CAPTURE_IMMEDIATE_ACK
    /\ FALSE \in env.db_ok
    /\ \E t \in RequestThreads : \E req \in rreq[t] :
        /\ rpc[t] = "put"
        /\ PrecheckHit(req)

\* steam_id p has a row in players
HasPlayer(pl, p) == \E r \in pl : r.steam_id = p

\* C27: in every reachable state every row of captures has a steam_id with
\* a row in players; a pair gets its row only in a step of a capture worker
\* that holds WRITE_LOCK, for a player that has a row.
C27_CapturesHavePlayers ==
    /\ [](\A r \in BagToSet(captures) : HasPlayer(players, r.steam_id))
    /\ [][\A q \in PlayerIds : \A sp \in SpeciesNames :
            PairRows(captures, q, sp) = {} /\ PairRows(captures', q, sp) # {}
            => /\ HasPlayer(players, q)
               /\ \E w \in CaptureWorkers :
                    /\ wpc[w] = "write"
                    /\ WRITE_LOCK = {w}
                    /\ \E req \in wreq[w] :
                        req.steam_id = q /\ req.pokemon_name = sp]_vars
    /\ [][\A q \in PlayerIds :
            HasPlayer(players, q) => HasPlayer(players', q)]_vars

\* a player that had no row at the start has registered and captured
C27_Witness ==
    /\ env.known = {}
    /\ captures # EmptyBag

\* C28: the merge of a shiny Capture for a pair whose row is not shiny
\* replaces that row by the same row with shiny = 1: steam_id, pokemon_name
\* and captured_at stay, the number of rows stays, every other row of
\* captures and players as a whole are unchanged.
C28_UpgradeInPlace ==
    [][\A w \in CaptureWorkers : \A req \in wreq[w] :
        /\ wpc[w] = "write"
        /\ CaptureReturns(w)
        /\ req.shiny
        /\ SelectShiny(captures, req.steam_id, req.pokemon_name) = {0}
        => /\ players' = players
           /\ BagCardinality(captures') = BagCardinality(captures)
           /\ \E old \in PairRows(captures, req.steam_id, req.pokemon_name) :
                captures' = (captures (-) Copies(old, 1))
                            (+) Copies([old EXCEPT !.shiny = 1], 1)]_vars

\* a shiny upgrade has returned while another row is in the table
C28_Witness ==
    /\ BagCardinality(captures) >= 2
    /\ \E w \in CaptureWorkers :
        /\ CaptureReturned(w)
        /\ wloc[w].outcome.body.shiny_upgraded

\* C29: in every reachable state steam_name_safe of every row of players
\* is make_safe_name of its steam_name_raw, and no step removes a row of
\* players or changes its steam_id or created_at: every steam_id keeps its
\* one row.
C29_SafeNameDerived ==
    /\ [](\A r \in players :
            r.steam_name_safe = make_safe_name(r.steam_name_raw))
    /\ [][\A r \in players :
            /\ \E n \in players' :
                n.steam_id = r.steam_id /\ n.created_at = r.created_at
            /\ Cardinality({n \in players' : n.steam_id = r.steam_id}) = 1]_vars

\* a player registered under a name that the sanitizer changes
C29_Witness ==
    \E r \in players :
        /\ r.steam_name_raw = {Messy}
        /\ r.steam_name_safe # Messy

\* C30: a Capture merge that gets past the short-circuit returns exactly
\* one of inserted and shiny_upgraded as true, with status 201; a merge that
\* is short-circuited returns both false with status 200.
C30_ExactlyOne ==
    [][\A w \in CaptureWorkers : \A req \in wreq[w] :
        CaptureReturns(w) =>
            LET out == wloc'[w].outcome
            IN  IF wpc[w] = "write"
                THEN /\ out.body.inserted # out.body.shiny_upgraded
                     /\ out.status = 201
                ELSE /\ ~out.body.inserted
                     /\ ~out.body.shiny_upgraded
                     /\ out.status = 200]_vars

\* a shiny Capture of a new pair has returned inserted and not
\* shiny_upgraded
C30_Witness ==
    \E w \in CaptureWorkers :
        /\ CaptureReturned(w)
        /\ wloc[w].outcome.body.inserted
        /\ ~wloc[w].outcome.body.shiny_upgraded
        /\ \E req \in wreq[w] : req.shiny

\* _process_capture(req) run in one piece on the tables pl and cap with a
\* working store: its outcome and the captures table it leaves
MergeOn(pl, cap, req, now) ==
    IF IsMegaGmax(req.pokemon_name)
    THEN [outcome |-> Returned(IgnoredBody, 200), captures |-> cap]
    ELSE IF SelectPlayer(pl, req.steam_id) = {}
    THEN [outcome |-> Raised(HTTPException(400, "Player not registered")),
          captures |-> cap]
    ELSE IF ShortCircuit(SelectShiny(cap, req.steam_id, req.pokemon_name), req)
    THEN [outcome |-> Returned(NoOpBody, 200), captures |-> cap]
    ELSE LET pre == SnapshotCounts(cap, req.pokemon_name)
             wr == CaptureWrite(cap, req,
                        IF req.captured_at = {} THEN now
                        ELSE CHOOSE c \in req.captured_at : TRUE)
         IN  [outcome |-> CaptureResult(req, wr.inserted, wr.shiny_upgraded,
                                        pre.total_players, pre.shiny_rows),
              captures |-> wr.captures]

\* C31: whenever the fast path of the capture handler answers a request,
\* _process_capture run atomically on the tables the pre-check read would
\* return the same body and status, all flags false with 200, and write
\* nothing: it would not insert, not upgrade, and not raise Player not
\* registered.
C31_FastPathAgreesWithMerge ==
    [][\A t \in RequestThreads : \A req \in CaptureReqs(t) :
        FastAnswer(t, req) =>
            \A now \in env.times :
                LET m == MergeOn(players, captures, req, now)
                IN  /\ m.outcome.kind = "result"
                    /\ resp' = {Response(m.outcome.status, m.outcome.body)}
                    /\ m.outcome.status = 200
                    /\ AllFalse(m.outcome.body)
                    /\ m.captures = captures
                    /\ HasPlayer(players, req.steam_id)]_vars

\* in immediate-ack mode, where no result of a worker reaches a caller, the
\* fast path has just answered while the table holds a shiny row
C31_Witness ==
    /\ cfg.CAPTURE_IMMEDIATE_ACK
    /\ \E r \in BagToSet(captures) : r.shiny = 1
    /\ \E r \in resp :
        /\ r.status = 200
        /\ "first_shiny" \in DOMAIN r.body
        /\ AllFalse(r.body)

====
